---- MODULE Spec2Model ----
(***************************************************************************)
(* Stack lifecycle orchestrator of stackr: the deploy engine (runner),     *)
(* the environment file (envfile), remote sync (remote.Manager), the cron  *)
(* scheduler (cronjobs.Scheduler) and the removal handler                  *)
(* (removal.Handler), as state machines translated from the Go sources.    *)
(***************************************************************************)
EXTENDS Integers, Sequences, FiniteSets, TLC

\* ------------------------------------------------------------------ bounds
MaxDeploys == 2
MaxEdits == 2
MaxSchedCalls == 2
MaxInst == 2
MaxAttempts == 3
MaxEvents == 3
MaxTime == 8
MaxRuns == 5
MaxRefLen == 3

\* ------------------------------------------------------------- small sets
Stacks == {"A", "B", "C"}
Callers == {"d1", "d2"}
Tags == {"v1", "v2", "v9"}
RepoRefs == {"v1", "v2"}
Modes == {"up", "getvars"}
Kinds == {"absent", "bare", "local", "localbad", "remote", "both"}
SThreads == {"main", "w"}
TagEnv == "TAG"

\* ----------------------------------------------------- environment file
\* A file is [lines, nl, crlf]: its lines, whether the last line is
\* terminated, and whether the line terminator is CRLF.  A line is
\* [t, k, v]: t = "kv" (k=v), "c" (# comment k), "b" (blank),
\* "m" (section marker of stack k), "e" (closing marker).
kv(k, v) == [t |-> "kv", k |-> k, v |-> v]
comment(k) == [t |-> "c", k |-> k, v |-> ""]
blank == [t |-> "b", k |-> "", v |-> ""]
marker(s) == [t |-> "m", k |-> s, v |-> ""]
closingMarker == [t |-> "e", k |-> "", v |-> ""]
File(lines, nl, crlf) == [lines |-> lines, nl |-> nl, crlf |-> crlf]
EmptyFile == File(<<>>, FALSE, FALSE)

InitialEnvFiles ==
  { File(<<comment("tags"), kv("TAG", "v1"), kv("VER", "v1"), kv("DB", "x")>>, TRUE, FALSE),
    File(<<kv("VER", "v2")>>, FALSE, FALSE),
    File(<<kv("TAG", "v2"), marker("A"), closingMarker>>, TRUE, TRUE) }

Keys(f) == {f.lines[i].k : i \in {j \in 1..Len(f.lines) : f.lines[j].t = "kv"}}

\* The value a reader of the file sees for key k (the last entry wins).
RECURSIVE LookupFrom(_, _, _)
LookupFrom(lines, k, i) ==
  IF i = 0 THEN ""
  ELSE IF lines[i].t = "kv" /\ lines[i].k = k THEN lines[i].v
  ELSE LookupFrom(lines, k, i - 1)
Lookup(f, k) == LookupFrom(f.lines, k, Len(f.lines))

readEnvFile(f) == [k \in Keys(f) |-> Lookup(f, k)]

SnapshotFile(f) == f

\* The rollback a plausible slip would write: put the previous tag back
\* with Update instead of restoring the snapshot's bytes.
RestoreTagOnly(f, snap) ==
  File(LET hit(i) == f.lines[i].t = "kv" /\ f.lines[i].k = "TAG"
       IN [i \in 1..Len(f.lines) |->
             IF hit(i) THEN kv("TAG", Lookup(snap, "TAG")) ELSE f.lines[i]],
       TRUE, FALSE)

\* envfile.Restore(path, snap): the file f becomes the snapshot's bytes.
Restore(f, snap) == snap

\* An Update that never looks for the key and always appends the entry.
UpdateLinesAppend(lines, key, value) ==
  IF Len(lines) > 0 /\ lines[Len(lines)].t # "b"
  THEN lines \o <<blank, kv(key, value)>>
  ELSE Append(lines, kv(key, value))

\* envfile.Update: every entry of key is rewritten, other lines are kept;
\* a missing key is appended after a blank line; the result is LF-terminated.
UpdateLines(lines, key, value) ==
  LET hit(i) == lines[i].t = "kv" /\ lines[i].k = key
      replaced == \E i \in 1..Len(lines) : hit(i)
      updated == [i \in 1..Len(lines) |-> IF hit(i) THEN kv(key, value) ELSE lines[i]]
  IN IF replaced THEN updated
     ELSE IF Len(updated) > 0 /\ updated[Len(updated)].t # "b"
          THEN updated \o <<blank, kv(key, value)>>
          ELSE Append(updated, kv(key, value))

Update(f, key, value) == File(UpdateLines(f.lines, key, value), TRUE, FALSE)

UpdatePrevious(f, key) == Lookup(f, key)

\* What a failed os.WriteFile can leave behind: the old content (the open
\* failed) or a truncated file (the write failed after O_TRUNC).
FailedWrite(f) == {f, EmptyFile}

\* What envfile.Restore can do to file f: succeed, or fail and be logged.
RestoreOutcomes(f, snap) ==
  {[file |-> Restore(f, snap), failed |-> FALSE]}
    \cup {[file |-> g, failed |-> TRUE] : g \in FailedWrite(f)}

\* ------------------------------------------------------ stack directories
\* fs[s] is what the stack directory of s holds: "absent" (no directory),
\* "bare" (neither marker), "local" (docker-compose.yml), "remote"
\* (stackr-repo.yml) or "both"; "localbad" is a local stack whose
\* compose file carries a schedule label that is no cron expression;
\* "file" is an entry of that name that is no directory.
InitialLayouts ==
  { [s \in Stacks |-> "local"],
    [s \in Stacks |-> IF s = "A" THEN "local" ELSE "remote"],
    [s \in Stacks |-> IF s = "A" THEN "bare" ELSE IF s = "B" THEN "both" ELSE "absent"] }

hasLocalCompose(k) == k \in {"local", "localbad", "both"}
hasRemoteDef(k) == k \in {"remote", "remotesub", "remotebad", "both"}

\* config.LoadRemoteStackDefinition on a directory of kind k: "remotebad"
\* holds a descriptor that does not parse or lacks a required field;
\* "remotesub" one whose remote_repo.path is a subdirectory; path is "."
\* when the descriptor names none.
LoadRemoteStackDefinition(k) ==
  IF k = "remotebad" THEN [err |-> TRUE, path |-> ""]
  ELSE [err |-> FALSE, path |-> IF k = "remotesub" THEN "deploy" ELSE "."]

\* stackcmd.ResolveStackPath on a directory of kind k.
ResolveStackPath(k) ==
  IF k \in {"absent", "file"} THEN [err |-> "notfound", type |-> "none"]
  ELSE IF hasLocalCompose(k) /\ hasRemoteDef(k) THEN [err |-> "ambiguous", type |-> "none"]
  ELSE IF ~hasLocalCompose(k) /\ ~hasRemoteDef(k) THEN [err |-> "unclassified", type |-> "none"]
  ELSE IF hasLocalCompose(k) THEN [err |-> "", type |-> "local"]
  ELSE IF LoadRemoteStackDefinition(k).err THEN [err |-> "loaddef", type |-> "none"]
  ELSE [err |-> "", type |-> "remote"]

\* The remote descriptor of each stack (stackr-repo.yml): release.ref is
\* "${refVar}", release.type is tag or commit.
RemoteDef(s) ==
  IF s = "C" THEN [refVar |-> "TAG", type |-> "commit"]
  ELSE [refVar |-> "VER", type |-> "tag"]

\* A ref, and a value, is a sequence of pieces: literal text (" " is
\* white space) or a placeholder ${text}.
Lit(t) == [ph |-> FALSE, text |-> t]
Ph(v) == [ph |-> TRUE, text |-> v]

\* A search that stops at the first placeholder.
FirstMatch(ref) ==
  LET m == SelectSeq(ref, LAMBDA t : t.ph)
  IN IF m = <<>> THEN <<>> ELSE <<Head(m)>>

\* envVarPattern.FindAllStringSubmatch(ref, -1): the placeholders of the
\* ref, in order, repeated ones included.
Matches(ref) == SelectSeq(ref, LAMBDA t : t.ph)

\* strings.ReplaceAll(resolved, "${v}", value)
RECURSIVE ReplaceAll(_, _, _)
ReplaceAll(text, v, value) ==
  IF text = <<>> THEN <<>>
  ELSE (IF Head(text) = Ph(v) THEN value ELSE <<Head(text)>>) \o ReplaceAll(Tail(text), v, value)

RECURSIVE TrimLeft(_)
TrimLeft(text) ==
  IF text # <<>> /\ Head(text) = Lit(" ") THEN TrimLeft(Tail(text)) ELSE text
RECURSIVE TrimRight(_)
TrimRight(text) ==
  IF text # <<>> /\ text[Len(text)] = Lit(" ")
  THEN TrimRight(SubSeq(text, 1, Len(text) - 1)) ELSE text
\* strings.TrimSpace on a sequence of pieces.
TrimSpaceText(text) == TrimRight(TrimLeft(text))

\* The loop of ResolveVersionRef over the matches still to do.
RECURSIVE ResolveMatches(_, _, _)
ResolveMatches(resolved, matches, envVars) ==
  IF matches = <<>> THEN [err |-> "", name |-> "", ref |-> TrimSpaceText(resolved)]
  ELSE LET v == Head(matches).text
       IN IF v \notin DOMAIN envVars
          THEN [err |-> "undefined", name |-> v, ref |-> <<>>]
          ELSE ResolveMatches(ReplaceAll(resolved, v, envVars[v]), Tail(matches), envVars)

\* config.ResolveVersionRef(ref, envVars): err is "" or the kind of the
\* error, name the variable the error names.
ResolveVersionRef(ref, envVars) ==
  IF ref = <<>> THEN [err |-> "empty", name |-> "", ref |-> <<>>]
  ELSE IF Matches(ref) = <<>> THEN [err |-> "", name |-> "", ref |-> ref]
  ELSE ResolveMatches(ref, Matches(ref), envVars)

\* config.ResolveVersionRef(def.RemoteRepo.Release.Ref, envVars) for the
\* ref "${v}" and values that are tags.
ReleaseRef(v, envVals) ==
  LET r == ResolveVersionRef(<<Ph(v)>>, [x \in DOMAIN envVals |-> <<Lit(envVals[x])>>])
  IN IF r.err # "" THEN [err |-> TRUE, ref |-> ""]
     ELSE [err |-> FALSE, ref |-> r.ref[1].text]

NoCopy == [cloned |-> FALSE, at |-> "none"]

\* A version check that skips the checkout whenever the working copy is
\* at the ref, whatever the release type.
ensureCorrectVersionAnyType(w, ref, refType) ==
  IF w.at = ref THEN [err |-> FALSE, wc |-> w, checkout |-> FALSE]
  ELSE IF ref \in RepoRefs THEN [err |-> FALSE, wc |-> [w EXCEPT !.at = ref], checkout |-> TRUE]
  ELSE [err |-> TRUE, wc |-> w, checkout |-> TRUE]

\* What ensureCorrectVersion saw and did: the commit it found checked
\* out, the ref it was given and whether it ran git checkout.
NoVersion == [current |-> "none", ref |-> "none", checkout |-> FALSE]

\* Manager.ensureCorrectVersion on a cloned working copy w.
ensureCorrectVersion(w, ref, refType) ==
  IF refType = "commit" /\ w.at = ref THEN [err |-> FALSE, wc |-> w, checkout |-> FALSE]
  ELSE IF ref \in RepoRefs THEN [err |-> FALSE, wc |-> [w EXCEPT !.at = ref], checkout |-> TRUE]
  ELSE [err |-> TRUE, wc |-> w, checkout |-> TRUE]

\* A sync that goes on after a failed clone.
AfterCloneLenient(cloneErr) == "continue"

\* EnsureRemoteStack after cloneRepo: its error is returned as a CloneError.
AfterClone(cloneErr) == IF cloneErr THEN "return" ELSE "continue"

\* A sync for which a failed pull is fatal.
AfterPullFatal(pullErr) == IF pullErr THEN "return" ELSE "continue"

\* EnsureRemoteStack after pullLatest: its error is logged, the cached
\* copy is used.
AfterPull(pullErr) == "continue"

\* remote.Manager.EnsureRemoteStack for stack s whose directory has kind
\* k and working copy w; net says whether the repository host answers.
\* steps are the git steps it attempted: "clone", "pull", "version"
\* (ensureCorrectVersion).
EnsureRemoteStack(s, k, w, envVals, net) ==
  IF ~hasRemoteDef(k) THEN [res |-> "defErr", wc |-> w, pullFailed |-> FALSE, steps |-> {}, ver |-> NoVersion]
  ELSE LET r == ReleaseRef(RemoteDef(s).refVar, envVals)
       IN IF r.err THEN [res |-> "refErr", wc |-> w, pullFailed |-> FALSE, steps |-> {}, ver |-> NoVersion]
          ELSE LET cloneTried == ~w.cloned
                   cloneErr == cloneTried /\ ~net
                   done == IF cloneTried THEN {"clone"} ELSE {}
                   w1 == IF cloneTried /\ ~cloneErr THEN [cloned |-> TRUE, at |-> "head"] ELSE w
                   pullErr == ~net
               IN IF AfterClone(cloneErr) = "return"
                  THEN [res |-> "cloneErr", wc |-> w1, pullFailed |-> FALSE, steps |-> done,
                        ver |-> NoVersion]
                  ELSE IF AfterPull(pullErr) = "return"
                  THEN [res |-> "pullErr", wc |-> w1, pullFailed |-> TRUE,
                        steps |-> done \cup {"pull"}, ver |-> NoVersion]
                  ELSE LET c == ensureCorrectVersion(w1, r.ref, RemoteDef(s).type)
                       IN [res |-> IF c.err THEN "checkoutErr" ELSE "ok",
                           wc |-> c.wc, pullFailed |-> pullErr,
                           steps |-> done \cup {"pull", "version"},
                           ver |-> [current |-> w1.at, ref |-> r.ref,
                                    checkout |-> c.checkout]]

\* ------------------------------------------------- stackcmd.Manager.Run
\* The variables the compose file of a stack references, in file order.
ComposeVars(s) == IF s = "A" THEN <<"TAG", "DB">> ELSE <<"TAG">>

\* strings.Contains(content, v): some line of the file mentions v.
Mentions(f, v) == \E i \in 1..Len(f.lines) : f.lines[i].k = v /\ f.lines[i].t \in {"kv", "c"}

RECURSIVE DropTrailingBlanks(_)
DropTrailingBlanks(lines) ==
  IF Len(lines) > 0 /\ lines[Len(lines)].t = "b"
  THEN DropTrailingBlanks(SubSeq(lines, 1, Len(lines) - 1))
  ELSE lines

RECURSIVE DropLeadingBlanks(_)
DropLeadingBlanks(lines) ==
  IF Len(lines) > 0 /\ lines[1].t = "b" THEN DropLeadingBlanks(Tail(lines)) ELSE lines

EntryLines(vars) == [i \in 1..Len(vars) |-> kv(vars[i], "")]

\* stackcmd.addVarsToEnv(content, stack, vars): a new section at the end
\* of the file, or the missing entries inserted before the closing marker
\* of the stack's section.
addVarsToEnv(f, s, vars) ==
  LET L == f.lines
      marks == {i \in 1..Len(L) : L[i] = marker(s)}
  IN IF Len(vars) = 0 THEN f
     ELSE IF marks = {}
     THEN LET trimmed == DropTrailingBlanks(L)
              section == <<marker(s)>> \o EntryLines(vars) \o <<closingMarker>>
          IN File(IF Len(trimmed) > 0 THEN trimmed \o <<blank>> \o section ELSE section,
                  TRUE, f.crlf)
     ELSE LET start == CHOOSE i \in marks : \A j \in marks : i <= j
              ends == {j \in (start + 1)..Len(L) : L[j].t = "e"}
          IN IF ends = {} THEN f
             ELSE LET end == CHOOSE j \in ends : \A j2 \in ends : j <= j2
                      body == SubSeq(L, start + 1, end - 1)
                      existing == {body[i].k : i \in {j \in 1..Len(body) : body[j].t = "kv"}}
                      toInsert == SelectSeq(vars, LAMBDA v : v \notin existing)
                  IN IF Len(toInsert) = 0 THEN f
                     ELSE File(SubSeq(L, 1, start) \o DropLeadingBlanks(body)
                                 \o EntryLines(toInsert) \o SubSeq(L, end, Len(L)),
                               f.nl, f.crlf)

\* The entries Manager.ensureStackVars finds missing from the manager's
\* copy m of the environment file.
MissingVars(m, s) ==
  SelectSeq(ComposeVars(s), LAMBDA v : v \notin Keys(m) /\ ~Mentions(m, v))

\* Manager.validateEnvVars: every referenced variable has a value.
validateEnvVars(m, s) ==
  \A i \in 1..Len(ComposeVars(s)) :
     ComposeVars(s)[i] \in Keys(m) /\ Lookup(m, ComposeVars(s)[i]) # ""

\* Manager.Run for one stack under the deploy options (mode), with the
\* manager's copy m of the environment file read at construction: the
\* set of possible outcomes [err, file, ran, why]: file is the environment
\* file afterwards, ran whether docker compose was invoked, why the step
\* that decided the outcome.  cur is the file on disk, k the stack directory.
ManagerRun(s, k, mode, m, cur) ==
  IF ~hasLocalCompose(k)
  THEN {[err |-> TRUE, file |-> cur, ran |-> FALSE, why |-> "nocompose"]}
  ELSE LET missing == MissingVars(m, s)
           updated == addVarsToEnv(m, s, missing)
           wrote == Len(missing) > 0 /\ updated # m
       IN IF wrote
          THEN {[err |-> (mode # "getvars"), file |-> updated, ran |-> FALSE, why |-> "vars"]}
                 \cup {[err |-> TRUE, file |-> g, ran |-> FALSE, why |-> "write"] :
                         g \in FailedWrite(cur)}
          ELSE IF mode = "getvars"
          THEN {[err |-> FALSE, file |-> cur, ran |-> FALSE, why |-> "vars"]}
          ELSE IF ~validateEnvVars(m, s)
          THEN {[err |-> TRUE, file |-> cur, ran |-> FALSE, why |-> "vars"]}
          ELSE {[err |-> e, file |-> cur, ran |-> TRUE, why |-> "compose"] : e \in BOOLEAN}

\* ------------------------------------------------------------------ state
VARIABLES
  envFile,     \* the environment file on disk
  fs,          \* the stacks directory: stack -> kind of its directory
  edits,       \* external edits of the stacks directory so far
  wc,          \* remote working copies: stack -> [cloned, at]
  mu,          \* Runner.mu: the caller holding it, or "none"
  dep,         \* per Deploy caller: its position and locals
  deploys,     \* Deploy calls made so far
  lastWriter,  \* the Deploy caller that wrote envFile last
  smu,         \* Scheduler.mu: the thread holding it, or "none"
  cron,        \* Scheduler.cron: the armed driver's id, 0 for nil
  sjobs,       \* Scheduler.jobs
  drv,         \* every cron driver made so far: id -> [entries, state]
  sth,         \* per thread: its position in Start / Reload / Stop
  scalls,      \* Start / Reload / Stop calls made so far
  crun,        \* driver -> job -> instances started by a firing and executing
  queued,      \* driver -> job -> firings waiting for their predecessor
  skips,       \* the <<driver, job>> whose running instance had a firing skipped
  rodPending,  \* job -> run-on-deploy goroutines spawned, not yet executing
  rodRun,      \* job -> run-on-deploy instances executing
  mpc,         \* main: "boot", "starting", "serving", "stopping", "exited"
  watching,    \* the watcher goroutine runs (its context is not cancelled)
  evq,         \* filesystem events the watcher has not read yet
  pending,     \* watch.run: the debounce timer is armed
  wpc,         \* the watch callback: "idle", "removals", "reload", "reloading"
  tracker,     \* removal.Tracker.stacks
  continueOnArchiveError,  \* HandlerConfig.ContinueOnArchiveError
  rq,          \* removed stacks CheckForRemovals has still to handle
  cur,         \* the stack handleRemovedStack is cleaning up, or "none"
  arch,        \* per stack: the outcome of Archive in this callback
  clean,       \* per stack: what Cleanup did in this callback
  lastInv,     \* the inventory handed to the last removal check (or the seed)
  prevInv,     \* the inventory handed to the check before that
  reported,    \* the names the last removal check reported removed
  prevReported, \* the names the check before that reported removed
  retry,       \* one RetryImagePull call: its configuration, position and locals
  deb,         \* watch.run with a clock: its timer, locals, events and callbacks
  cj,          \* one compose file, the jobs discovered in it and the manual runs
  ct,          \* the job containers docker holds, and the last cleanup of them
  ds,        \* a stacks directory and what discovery and resolution said of it
  rv,        \* one ResolveVersionRef call: the ref, the values and what it returned
  jx,        \* one job execution at a time: its position and its manager's copy of the file
  cl,        \* one removal.Cleanup call: the directory, docker's answers and the outcome
  uf         \* one envfile.Update call: the file, the key and value, and what it wrote and returned

deployVars == <<envFile, wc, mu, dep, deploys, lastWriter>>
fsVars == <<fs, edits, evq>>
schedVars == <<smu, cron, sjobs, drv, sth, scalls, crun, queued, skips, rodPending, rodRun>>
removalVars == <<tracker, continueOnArchiveError, rq, cur, arch, clean, lastInv, prevInv, reported, prevReported>>
watchVars == <<mpc, watching, pending, wpc, removalVars>>
engineVars == <<retry, deb, cj, ct, ds, rv, jx, cl, uf>>
outsideDeploy == <<fsVars, schedVars, watchVars, engineVars>>
outsideSched == <<fsVars, deployVars, watchVars, engineVars>>
vars == <<envFile, fs, edits, wc, mu, dep, deploys, lastWriter,
          smu, cron, sjobs, drv, sth, scalls, crun, queued, skips, rodPending, rodRun,
          mpc, watching, evq, pending, wpc, tracker, continueOnArchiveError, rq, cur,
          arch, clean, lastInv, prevInv, reported, prevReported, retry, deb, cj, ct, ds, rv, jx, cl, uf>>

\* --------------------------------------------------- cronjobs.Scheduler
Drivers == 1..(MaxSchedCalls + MaxEdits)
StackOrder == <<"A", "B", "C">>

\* The labels of the service each stack's compose file declares: A has a
\* schedule and run_on_deploy, B a schedule, C no schedule label.
HasScheduleLabel(s) == s \in {"A", "B"}
RunOnDeploy(s) == s = "A"

\* cronjobs.discoverJobs: one job per stack directory whose compose file
\* has a service with a schedule label, in directory order.
discoverJobs(f) ==
  LET present == SelectSeq(StackOrder, LAMBDA s : hasLocalCompose(f[s]) /\ HasScheduleLabel(s))
  IN [i \in 1..Len(present) |->
        [stack |-> present[i], valid |-> f[present[i]] # "localbad",
         rod |-> RunOnDeploy(present[i])]]

\* The index of the first job startLocked cannot schedule, or 0.
FirstInvalid(jobs) ==
  LET bad == {i \in 1..Len(jobs) : ~jobs[i].valid}
  IN IF bad = {} THEN 0 ELSE CHOOSE i \in bad : \A j \in bad : i <= j

\* A startLocked that skips a job it cannot schedule instead of
\* returning, and starts the driver with the others.
startLockedSkipping(jobs) ==
  [err |-> FALSE,
   armed |-> Len(jobs) > 0,
   entries |-> {jobs[i].stack : i \in {j \in 1..Len(jobs) : jobs[j].valid}},
   spawned |-> {jobs[i].stack : i \in {j \in 1..Len(jobs) : jobs[j].valid /\ jobs[j].rod}}]

\* Scheduler.startLocked over jobs: [err, armed, entries, spawned]: whether
\* a driver was started, the jobs registered on it, and the jobs whose
\* run-on-deploy goroutine was spawned on the way.
startLocked(jobs) ==
  LET k == FirstInvalid(jobs)
      upto == IF k = 0 THEN Len(jobs) ELSE k - 1
  IN [err |-> k # 0,
      armed |-> Len(jobs) > 0 /\ k = 0,
      entries |-> {jobs[i].stack : i \in 1..Len(jobs)},
      spawned |-> {jobs[i].stack : i \in {j \in 1..upto : jobs[j].rod}}]

\* --------------------------------------------------- remote.RetryImagePull
\* RetryConfig: MaxAttempts, InitialDelay, MaxDelay (in time units) and
\* Backoff, the multiplier, as the fraction num/den.
RetryConfigs ==
  [maxAttempts : 0..MaxAttempts, initialDelay : {4, 10, 40}, maxDelay : {30, 100},
   backoff : {<<1, 1>>, <<2, 1>>, <<3, 2>>}]

\* remote.DefaultRetryConfig(), the durations in seconds.
DefaultRetryConfig ==
  [maxAttempts |-> 5, initialDelay |-> 30, maxDelay |-> 300, backoff |-> <<2, 1>>]

\* delay = time.Duration(float64(delay) * cfg.Backoff), capped at MaxDelay.
NextDelay(delay, cfg) ==
  LET d == (delay * cfg.backoff[1]) \div cfg.backoff[2]
  IN IF d > cfg.maxDelay THEN cfg.maxDelay ELSE d

\* A loop that waits after every failure.
LastAttemptNever(attempt, cfg) == FALSE

\* if attempt == cfg.MaxAttempts
LastAttempt(attempt, cfg) == attempt = cfg.maxAttempts

\* A wait that ignores the context (time.Sleep).
SelectTimerOnly(due, ctxDone) == IF due THEN {"timer"} ELSE {}

\* The select of the wait: the case it returns with, if any.  The timer
\* is not due when the wait begins (delays are positive), and a goroutine
\* parked in select is committed to the first case that becomes ready,
\* so due and ctxDone together mean the timer was first.
Select(due, ctxDone) ==
  IF due THEN {"timer"} ELSE IF ctxDone THEN {"cancel"} ELSE {}

\* calls: invocations of the operation so far; waits: the delays waited
\* in full; due: the timer of the current wait has fired; cancelledAt: the
\* number of invocations made when the context was cancelled during a
\* wait whose timer had not fired, else -1.
IdleRetry ==
  [pc |-> "idle", cfg |-> [maxAttempts |-> 0, initialDelay |-> 4, maxDelay |-> 30,
                           backoff |-> <<1, 1>>],
   attempt |-> 1, delay |-> 4, calls |-> 0, waits |-> <<>>, lastOk |-> FALSE,
   due |-> FALSE, ctxDone |-> FALSE, cancelledAt |-> -1, result |-> "none"]

\* ------------------------------------------------------- watch.run, timed
\* const debounceWindow = 2 * time.Second, in clock ticks.
debounceWindow == 2

Paths == {"p", "q"}
\* fsnotify.Op of an event, as far as the filter of run tells them apart.
Ops == {"write", "chmod"}

\* The events fsnotify can deliver; the path of an event that run skips
\* is never looked at, so one path stands for all of them.
Events == {e \in [path : Paths, op : Ops] : e.op = "chmod" => e.path = "p"}

\* event.Op & (Create|Remove|Write|Rename) != 0
IsChange(op) == op # "chmod"

\* A trigger that leaves an armed timer as it is.
triggerNoReset(d, path) ==
  IF ~d.pending
  THEN [d EXCEPT !.last = path, !.pending = TRUE, !.lastRead = d.now,
                 !.timerAt = d.now + debounceWindow]
  ELSE [d EXCEPT !.last = path, !.lastRead = d.now]

\* trigger(path): remember the path; arm the timer if nothing is pending,
\* else stop it (draining timer.C if it had already fired) and arm it
\* again.  timerAt is the deadline of the armed timer, -1 when it is not
\* armed; timerC says a value sits in timer.C.
trigger(d, path) ==
  IF ~d.pending
  THEN [d EXCEPT !.last = path, !.pending = TRUE, !.lastRead = d.now,
                 !.timerAt = d.now + debounceWindow]
  ELSE [d EXCEPT !.last = path, !.lastRead = d.now,
                 !.timerC = IF d.timerAt = -1 THEN FALSE ELSE @,
                 !.timerAt = d.now + debounceWindow]

\* now: the clock; evs: the events fsnotify delivered so far, each with
\* the time it happened; read: how many of them run has received; cbs:
\* the callback invocations so far, each with its time, the time of the
\* trigger before it and the number of events received by then.
IdleRun ==
  [pc |-> "select", now |-> 0, evs |-> <<>>, read |-> 0, timerAt |-> -1,
   timerC |-> FALSE, pending |-> FALSE, last |-> "", lastRead |-> -1,
   ctxDone |-> FALSE, cbs |-> <<>>]

\* ------------------------------------------- discoverJobs, per service
Services == {"scraper", "noop", "web"}
\* What a compose file says about stackr.cron.schedule for a service:
\* no such label, or the label with this value.
ScheduleLabels == {"absent", "", " ", "0 1 * * *"}
TrimSpace(v) == IF v = " " THEN "" ELSE v

\* service.Labels[scheduleLabel]: a missing key reads as the zero value.
LabelValue(label) == IF label = "absent" THEN "" ELSE label

\* The inner loop of discoverJobs over the services of one compose file:
\* a service whose trimmed schedule is empty is skipped.
serviceJobs(compose) ==
  {[service |-> sv, schedule |-> TrimSpace(LabelValue(compose[sv]))] :
      sv \in {x \in Services : TrimSpace(LabelValue(compose[x])) # ""}}

\* ExecuteJobManually(cfg, stack, service, nil): "cron job not found"
\* unless discoverJobs returned a job of that stack and service.
ExecuteJobManually(compose, sv) ==
  IF \E job \in serviceJobs(compose) : job.service = sv
  THEN "executed" ELSE "not found"

\* jobs: what discoverJobs returned; entries: the services startLocked
\* registered on the cron driver; manual: the outcome of run-cron.
NoCompose ==
  [pc |-> "none", compose |-> [sv \in Services |-> "absent"], jobs |-> {},
   entries |-> {}, manual |-> [sv \in Services |-> "none"]]

\* ------------------------------------------- cronjobs.CleanupOldContainers
\* Names are sequences of the pieces between hyphens.  A job is a stack
\* and a service of it.
CronJobs ==
  { [stack |-> <<"web">>, service |-> <<"scraper">>],
    [stack |-> <<"web">>, service |-> <<"api", "worker">>],
    [stack |-> <<"web", "api">>, service |-> <<"worker">>],
    [stack |-> <<"web">>, service |-> <<"cron", "backup">>] }
Retentions == {0, 1, 2}
\* time.Now().Unix() of the first run (the example of cleanup.go).
Epoch == 1735392000

\* %d: the decimal digits of n, most significant first.
RECURSIVE Digits(_)
Digits(n) == IF n < 10 THEN <<n>> ELSE Append(Digits(n \div 10), n % 10)

\* GenerateContainerName: {stack}-{service}-cron-{timestamp}
GenerateContainerName(job, ts) == job.stack \o job.service \o <<"cron">> \o <<Digits(ts)>>

\* strings.Split(name, "-cron-"): the places of a "cron" piece with a
\* hyphen on either side.
CronAt(name) == {i \in 2..(Len(name) - 1) : name[i] = "cron"}
\* parts[0] when len(parts) == 2
ServiceKey(name) == SubSeq(name, 1, (CHOOSE i \in CronAt(name) : TRUE) - 1)
Grouped(names) == {n \in names : Cardinality(CronAt(n)) = 1}

\* x > y for strings of digits, compared byte by byte.
RECURSIVE DigitsGreater(_, _)
DigitsGreater(x, y) ==
  IF x = <<>> THEN FALSE
  ELSE IF y = <<>> THEN TRUE
  ELSE IF Head(x) # Head(y) THEN Head(x) > Head(y)
  ELSE DigitsGreater(Tail(x), Tail(y))

\* containers[i] > containers[j] for two names of one group: they agree
\* up to "-cron-", so the timestamps' digits decide.
NameGreater(a, b) == DigitsGreater(a[Len(a)], b[Len(b)])

\* The names CleanupOldContainers passes to docker rm: in every group
\* longer than retention, all but the first retention names of the
\* descending order.
toRemove(names, retention) ==
  {n \in Grouped(names) :
     LET group == {m \in Grouped(names) : ServiceKey(m) = ServiceKey(n)}
     IN /\ Cardinality(group) > retention
        /\ Cardinality({m \in group : NameGreater(m, n)}) >= retention}

\* CleanupOldContainers(retention) over the containers docker lists, by
\* outcome: docker ps fails, every docker rm fails, or all goes well.
CleanupOldContainers(names, retention, outcome) ==
  IF outcome = "ok" THEN names \ toRemove(names, retention) ELSE names

\* containers: name -> the job and timestamp it was made for.
NoContainers ==
  [containers |-> {}, runs |-> 0, before |-> {}, retention |-> 0, cleaned |-> "none"]

\* ------------------------------------------------ stackcmd.DiscoverStacks
\* What an entry of the stacks directory can be: the kinds of fs, and
\* "file", an entry that is no directory.
DirKinds == {"absent", "file", "bare", "local", "remote", "remotesub", "remotebad", "both"}

\* A compose path that ignores remote_repo.path.
ComposePathNoSubdir(s, type, path) ==
  IF type = "local" THEN <<"stacks", s, "docker-compose.yml">>
  ELSE <<".stackr-repos", s, "docker-compose.yml">>

\* The path of the definition file, piece by piece: under the stacks
\* directory for a local stack, under the working-copy root, the stack
\* and remote_repo.path (unless "" or ".") for a remote one.
ComposePath(s, type, path) ==
  IF type = "local" THEN <<"stacks", s, "docker-compose.yml">>
  ELSE <<".stackr-repos", s>> \o (IF path # "" /\ path # "." THEN <<path>> ELSE <<>>)
       \o <<"docker-compose.yml">>

\* StackInfo{Name, Type, ComposePath} of stack s, classified as type.
StackInfo(s, k, type) ==
  [Name |-> s, Type |-> type,
   ComposePath |-> ComposePath(s, type, LoadRemoteStackDefinition(k).path)]

\* A discovery for which two markers are no error.
AmbiguousNever(k) == FALSE

\* hasLocalCompose && hasRemoteDef
Ambiguous(k) == hasLocalCompose(k) /\ hasRemoteDef(k)

\* What the loop of DiscoverStacks does with one entry: skip it, append
\* a StackInfo of a type, or return an error.
DiscoverEntry(k) ==
  IF k \in {"absent", "file"} THEN "skip"
  ELSE IF Ambiguous(k) THEN "ambiguous"
  ELSE IF hasLocalCompose(k) THEN "local"
  ELSE IF hasRemoteDef(k)
       THEN IF LoadRemoteStackDefinition(k).err THEN "loaddef" ELSE "remote"
  ELSE "skip"

\* DiscoverStacks over a directory: the error of the first entry, in
\* directory order, that has one, and then no list; else the StackInfo
\* of the entries that are stacks, sorted by name.
DiscoverStacks(layout) ==
  LET bad == {i \in 1..Len(StackOrder) :
                DiscoverEntry(layout[StackOrder[i]]) \in {"ambiguous", "loaddef"}}
      first == CHOOSE i \in bad : \A j \in bad : i <= j
      found == SelectSeq(StackOrder,
                         LAMBDA s : DiscoverEntry(layout[s]) \in {"local", "remote"})
  IN IF bad # {}
     THEN [err |-> DiscoverEntry(layout[StackOrder[first]]), at |-> StackOrder[first],
           stacks |-> <<>>]
     ELSE [err |-> "", at |-> "",
           stacks |-> [i \in 1..Len(found) |->
                         StackInfo(found[i], layout[found[i]],
                                   DiscoverEntry(layout[found[i]]))]]

\* layout: the stacks directory; list: what DiscoverStacks returned;
\* info: what ResolveStackPath returned for each name it was asked.
NoLayout ==
  [pc |-> "none", layout |-> [s \in Stacks |-> "absent"],
   list |-> [err |-> "none", at |-> "", stacks |-> <<>>],
   info |-> [s \in Stacks |-> [err |-> "none"]]]

\* ------------------------------------------------ config.ResolveVersionRef
\* The pieces of the refs and the values tried.
RefPieces == {Lit("v"), Lit(" "), Ph("V"), Ph("W")}
RefsUpTo(n) == UNION {[1..k -> RefPieces] : k \in 0..n}
\* The environment values: V is undefined, a version, empty, white
\* space before a version, or the text ${W}; W is undefined or a version.
RefEnvs ==
  { [x \in D |-> IF x = "V" THEN val ELSE <<Lit("2")>>] :
      D \in SUBSET {"V", "W"},
      val \in {<<Lit("1")>>, <<>>, <<Lit(" "), Lit("1")>>, <<Ph("W")>>} }

NoRef == [pc |-> "none", ref |-> <<>>, envVars |-> <<>>,
          out |-> [err |-> "none", name |-> "", ref |-> <<>>]]

\* os.Stat of <stacksDir>/<stack>/docker-compose.yml in a directory
\* entry of kind k: found, ENOENT, or ENOTDIR when the entry of the
\* stack's name is a file, which os.IsNotExist does not accept.
StatCompose(k) ==
  IF hasLocalCompose(k) THEN "ok" ELSE IF k = "file" THEN "enotdir" ELSE "enoent"

\* What docker answers to the commands of one cleanup: whether each
\* command succeeds and whether each listing finds anything.
DockerAnswers ==
  [downOk : BOOLEAN, psOk : BOOLEAN, psAny : BOOLEAN, rmOk : BOOLEAN,
   volLsOk : BOOLEAN, volAny : BOOLEAN, volRmOk : BOOLEAN,
   netLsOk : BOOLEAN, netAny : BOOLEAN, netRmOk : BOOLEAN]

\* removeContainers / removeVolumes / removeNetworks: list by project
\* label, return nil when nothing is found, else remove; tolerant says
\* whether a failed removal is only logged.
removeByLabel(ls, rm, lsOk, any, rmOk, tolerant) ==
  IF ~lsOk THEN [cmds |-> <<ls>>, err |-> TRUE]
  ELSE IF ~any THEN [cmds |-> <<ls>>, err |-> FALSE]
  ELSE [cmds |-> <<ls, rm>>, err |-> ~rmOk /\ ~tolerant]

removeContainers(d) == removeByLabel("ps", "rm", d.psOk, d.psAny, d.rmOk, FALSE)
removeVolumes(d) ==
  removeByLabel("volume ls", "volume rm", d.volLsOk, d.volAny, d.volRmOk, FALSE)
removeNetworks(d) ==
  removeByLabel("network ls", "network rm", d.netLsOk, d.netAny, d.netRmOk, TRUE)

\* removal.cleanupByProjectLabel: containers, volumes, networks, stopping
\* at the first error.
cleanupByProjectLabel(d) ==
  LET c == removeContainers(d)
      v == removeVolumes(d)
      n == removeNetworks(d)
  IN IF c.err THEN [cmds |-> c.cmds, err |-> "containers"]
     ELSE IF v.err THEN [cmds |-> c.cmds \o v.cmds, err |-> "volumes"]
     ELSE [cmds |-> c.cmds \o v.cmds \o n.cmds,
           err |-> IF n.err THEN "networks" ELSE ""]

\* removal.Cleanup(ctx, stack, stacksDir): the docker commands it runs,
\* in order, and its error ("" for nil).
Cleanup(k, d) ==
  LET st == StatCompose(k)
  IN IF st = "enoent" THEN cleanupByProjectLabel(d)
     ELSE IF st # "ok" THEN [cmds |-> <<>>, err |-> "stat"]
     ELSE [cmds |-> <<"compose down --volumes">>, err |-> IF d.downOk THEN "" ELSE "down"]

AllFine ==
  [downOk |-> TRUE, psOk |-> TRUE, psAny |-> TRUE, rmOk |-> TRUE,
   volLsOk |-> TRUE, volAny |-> TRUE, volRmOk |-> TRUE,
   netLsOk |-> TRUE, netAny |-> TRUE, netRmOk |-> TRUE]

NoCleanup == [pc |-> "none", k |-> "absent", docker |-> AllFine, out |-> [cmds |-> <<>>, err |-> ""]]

\* The lines an environment file handed to Update is made of, and the
\* files of up to MaxLines of them.  A file without lines has no
\* terminator, and an unterminated last line is never blank (those are
\* the bytes of the shorter, terminated file).
MaxLines == 3
LinePool ==
  {comment("tags"), blank, marker("A"), kv("TAG", "v1"), kv("TAG", "v2"), kv("VER", "v1")}
RECURSIVE LinesUpTo(_)
LinesUpTo(n) ==
  IF n = 0 THEN {<<>>}
  ELSE LET shorter == LinesUpTo(n - 1)
       IN shorter \cup {Append(ls, l) : ls \in {x \in shorter : Len(x) = n - 1}, l \in LinePool}
UpdateFiles ==
  {f \in [lines : LinesUpTo(MaxLines), nl : BOOLEAN, crlf : BOOLEAN] :
      /\ f.lines = <<>> => (~f.nl /\ ~f.crlf)
      /\ (f.lines # <<>> /\ ~f.nl) => f.lines[Len(f.lines)].t # "b"}
UpdateKeys == {"TAG", "VER", "DB"}
UpdateValues == {"v1", "v3"}

NoUpdate ==
  [pc |-> "none", file |-> EmptyFile, key |-> "TAG", value |-> "v1",
   out |-> EmptyFile, previous |-> ""]

\* Scheduler.executeInternal for one job: n executions were started so
\* far; mgr is the manager's copy of the environment file, wrote whether
\* the execution wrote the file.
NoJobExec == [pc |-> "none", stack |-> "A", mgr |-> EmptyFile, wrote |-> FALSE, n |-> 0]

\* The daemon process has not exited: its goroutines still run.
Alive == mpc # "exited"

NoDriver == [entries |-> {}, state |-> "none"]
\* fired: a firing of the armed driver started an instance while this
\* thread was in Reload, holding s.mu, before its cron.Stop().
\* was, had: s.cron and s.jobs when this thread's Reload took s.mu.
IdleThread ==
  [pc |-> "idle", jobs |-> <<>>, err |-> FALSE, fired |-> FALSE, was |-> 0, had |-> <<>>]

\* A nil *Result.
NoResult == [Status |-> "none"]

\* &Result{Status: "ok", Stack: stack, Tag: tag, Stdout: ...}: the fields
\* of the struct Deploy returns on success.
Result(stack, tag, stdout) ==
  [Status |-> "ok", Stack |-> stack, Tag |-> tag, Stdout |-> stdout]

\* A nil error.
NoError == [kind |-> "nil", Msg |-> "", Code |-> 0, Stdout |-> "", Stderr |-> ""]

\* fmt.Errorf("failed to ...: %w", err): an error that is no CommandError.
PlainError(msg) == [kind |-> "error", Msg |-> msg, Code |-> 0, Stdout |-> "", Stderr |-> ""]

\* &CommandError{Msg: ..., Code: 1, Stdout: stdout.String(), Stderr:
\* stderr.String()}: the buffers hold what docker compose wrote, if it ran.
CommandError(stack, ran) ==
  [kind |-> "CommandError", Msg |-> stack, Code |-> 1,
   Stdout |-> IF ran THEN "output" ELSE "", Stderr |-> IF ran THEN "errors" ELSE ""]

\* A Deploy that returns the error of a failed restore in place of the
\* execution error.
ExecErrorMasked(stack, ran, restoreFailed) ==
  IF restoreFailed THEN PlainError("err_restore") ELSE CommandError(stack, ran)

\* The error Deploy returns when manager.Run failed: the restore's own
\* failure is logged and changes nothing of it.
ExecError(stack, ran, restoreFailed) == CommandError(stack, ran)

IdleDep ==
  [pc |-> "idle", stack |-> "A", tag |-> "v1", mode |-> "up",
   before |-> EmptyFile, snap |-> EmptyFile, previous |-> "", type |-> "none",
   sync |-> "none", hadCopy |-> FALSE, pullFailed |-> FALSE, steps |-> {},
   mgr |-> EmptyFile,
   wrote |-> FALSE, ran |-> FALSE, why |-> "", rfail |-> FALSE, ufail |-> FALSE,
   result |-> "none", value |-> NoResult,
   ctxDone |-> FALSE, expired |-> FALSE, proc |-> "none", error |-> NoError,
   ver |-> NoVersion]

Init ==
  /\ envFile \in InitialEnvFiles \cup {EmptyFile}
  /\ fs \in InitialLayouts
  /\ edits = 0
  /\ wc = [s \in Stacks |-> NoCopy]
  /\ mu = "none"
  /\ dep = [p \in Callers |-> IdleDep]
  /\ deploys = 0
  /\ lastWriter = "none"
  /\ smu = "none"
  /\ cron = 0
  /\ sjobs = discoverJobs(fs)
  /\ drv = [d \in Drivers |-> NoDriver]
  /\ sth = [t \in SThreads |-> IdleThread]
  /\ scalls = 0
  /\ crun = [d \in Drivers |-> [s \in Stacks |-> 0]]
  /\ queued = [d \in Drivers |-> [s \in Stacks |-> 0]]
  /\ skips = {}
  /\ rodPending = [s \in Stacks |-> 0]
  /\ rodRun = [s \in Stacks |-> 0]
  /\ mpc = "boot"
  /\ watching = FALSE
  /\ evq = 0
  /\ pending = FALSE
  /\ wpc = "idle"
  /\ tracker = {}
  /\ continueOnArchiveError \in BOOLEAN
  /\ rq = {}
  /\ cur = "none"
  /\ arch = [s \in Stacks |-> "none"]
  /\ clean = [s \in Stacks |-> "none"]
  /\ lastInv = {}
  /\ prevInv = {}
  /\ reported = {}
  /\ prevReported = {}
  /\ retry = IdleRetry
  /\ deb = IdleRun
  /\ cj = NoCompose
  /\ ct = NoContainers
  /\ ds = NoLayout
  /\ rv = NoRef
  /\ jx = NoJobExec
  /\ cl = NoCleanup
  /\ uf = NoUpdate

\* An operator or a tool edits the stacks directory (k = fs[s]: a write
\* that leaves the markers as they are); the watcher gets an event.
FsEdit(s, k) ==
  /\ edits < MaxEdits
  /\ fs' = [fs EXCEPT ![s] = k]
  /\ edits' = edits + 1
  /\ evq' = evq + 1
  /\ UNCHANGED <<deployVars, engineVars, schedVars, watchVars>>

\* ------------------------------------------------------- Runner.Deploy
\* A caller (an HTTP request) enters Deploy and waits for r.mu.
DeployCall(p, s, t, m) ==
  /\ dep[p].pc = "idle"
  /\ deploys < MaxDeploys
  /\ deploys' = deploys + 1
  /\ dep' = [dep EXCEPT ![p] = [IdleDep EXCEPT !.pc = "lock", !.stack = s, !.tag = t, !.mode = m]]
  /\ UNCHANGED <<envFile, wc, mu, lastWriter, outsideDeploy>>

\* The guard a Runner without the mutex would have.
CanLockNoMutex(p) == TRUE

\* The guard of a Deploy that took the scheduler's lock as well.
CanLockSchedulerIdle(p) == mu = "none" /\ smu = "none"

\* Whether caller p may take r.mu.
CanLock(p) == mu = "none"

\* r.mu.Lock()
DeployLock(p) ==
  /\ dep[p].pc = "lock"
  /\ CanLock(p)
  /\ mu' = p
  /\ dep' = [dep EXCEPT ![p].pc = "snapshot", ![p].before = envFile]
  /\ UNCHANGED <<envFile, wc, deploys, lastWriter, outsideDeploy>>

\* Deploy has its error or result: what is left is the deferred unlock.
Finish(d, res) ==
  [d EXCEPT !.pc = "return", !.result = res,
            !.error = IF res = "ok" THEN NoError ELSE PlainError(res)]

\* snap, err := envfile.SnapshotFile(r.cfg.EnvFile)
DeploySnapshot(p) ==
  /\ dep[p].pc = "snapshot"
  /\ \/ dep' = [dep EXCEPT ![p].pc = "update", ![p].snap = SnapshotFile(envFile)]
     \/ dep' = [dep EXCEPT ![p] = Finish(@, "err_snapshot")]
  /\ UNCHANGED <<envFile, wc, mu, deploys, lastWriter, outsideDeploy>>

\* previous, err := envfile.Update(r.cfg.EnvFile, stackCfg.TagEnv, tag)
DeployUpdate(p) ==
  /\ dep[p].pc = "update"
  /\ \/ /\ envFile' = Update(envFile, TagEnv, dep[p].tag)
        /\ dep' = [dep EXCEPT ![p].pc = "resolve", ![p].wrote = TRUE,
                                ![p].previous = UpdatePrevious(envFile, TagEnv)]
        /\ lastWriter' = p
     \/ /\ envFile' \in FailedWrite(envFile)
        /\ dep' = [dep EXCEPT ![p] = [Finish(@, "err_update") EXCEPT
                                        !.ufail = (envFile' # envFile)]]
        /\ lastWriter' = IF envFile' = envFile THEN lastWriter ELSE p
  /\ UNCHANGED <<wc, mu, deploys, outsideDeploy>>

\* An error path that returns the error and leaves the file as it is.
RollbackSkipped(p, res) ==
  /\ dep' = [dep EXCEPT ![p] = Finish(@, res)]
  /\ UNCHANGED <<envFile, lastWriter>>

\* An error path after the tag was written: restore the snapshot (a failed
\* restore is only logged) and return the error.
Rollback(p, res) ==
  \E o \in RestoreOutcomes(envFile, dep[p].snap) :
     /\ envFile' = o.file
     /\ lastWriter' = p
     /\ dep' = [dep EXCEPT ![p] = [Finish(@, res) EXCEPT !.rfail = o.failed]]

\* stackInfo, err := stackcmd.ResolveStackPath(r.cfg, stack)
DeployResolve(p) ==
  /\ dep[p].pc = "resolve"
  /\ LET r == ResolveStackPath(fs[dep[p].stack])
     IN IF r.err # "" THEN Rollback(p, "err_resolve")
        ELSE /\ dep' = [dep EXCEPT ![p].pc = IF r.type = "remote" THEN "sync" ELSE "manager",
                                     ![p].type = r.type]
             /\ UNCHANGED <<envFile, lastWriter>>
  /\ UNCHANGED <<wc, mu, deploys, outsideDeploy>>

\* What Deploy does with the error of EnsureRemoteStack: it logs it and
\* goes on to the execution step.
AfterSync(res) == "manager"

\* A Deploy that resolved the release ref from the file it found when it
\* took the mutex.
SyncEnvBefore(d, f) == d.before

\* The file whose values Deploy hands to EnsureRemoteStack: the
\* environment file as readEnvFile finds it, after envfile.Update.
SyncEnv(d, f) == f

\* The remote branch of Deploy: readEnvFile, then EnsureRemoteStack.
DeploySync(p) ==
  /\ dep[p].pc = "sync"
  /\ \/ dep[p].proc = "none" /\ Rollback(p, "err_envread") /\ UNCHANGED wc
     \/ \E net \in (IF dep[p].proc = "killed" THEN {FALSE} ELSE BOOLEAN) :
          LET s == dep[p].stack
              r == EnsureRemoteStack(s, fs[s], wc[s], readEnvFile(SyncEnv(dep[p], envFile)), net)
          IN /\ wc' = [wc EXCEPT ![s] = r.wc]
             /\ dep' = [dep EXCEPT ![p].pc = AfterSync(r.res), ![p].sync = r.res,
                                     ![p].hadCopy = wc[s].cloned,
                                     ![p].pullFailed = r.pullFailed,
                                     ![p].steps = r.steps, ![p].proc = "none",
                                     ![p].ver = r.ver]
             /\ UNCHANGED <<envFile, lastWriter>>
  /\ UNCHANGED <<mu, deploys, outsideDeploy>>

\* manager, err := stackcmd.NewManagerWithWriters(r.cfg, &stdout, &stderr)
DeployManager(p) ==
  /\ dep[p].pc = "manager"
  /\ \/ Rollback(p, "err_manager")
     \/ /\ dep' = [dep EXCEPT ![p].pc = "run", ![p].mgr = envFile]
        /\ UNCHANGED <<envFile, lastWriter>>
  /\ UNCHANGED <<wc, mu, deploys, outsideDeploy>>

\* manager.Run(ctx, opts), then the rollback on error or the result.
DeployRun(p) ==
  /\ dep[p].pc = "run"
  /\ \E o \in {x \in ManagerRun(dep[p].stack, fs[dep[p].stack], dep[p].mode, dep[p].mgr, envFile) :
                   dep[p].proc = "killed" => (x.err /\ x.why = "compose")} :
       IF o.err
       THEN \E r \in RestoreOutcomes(o.file, dep[p].snap) :
              /\ envFile' = r.file
              /\ dep' = [dep EXCEPT ![p] = [Finish(@, "err_exec") EXCEPT
                                             !.rfail = r.failed, !.ran = o.ran, !.why = o.why,
                                             !.error = ExecError(dep[p].stack, o.ran, r.failed)]]
       ELSE /\ envFile' = o.file
            /\ dep' = [dep EXCEPT ![p] = [Finish(@, "ok") EXCEPT
                                           !.ran = o.ran, !.why = o.why,
                                           !.value = Result(dep[p].stack, dep[p].tag,
                                                            IF o.ran THEN "output" ELSE "")]]
  /\ lastWriter' = p
  /\ UNCHANGED <<wc, mu, deploys, outsideDeploy>>

\* Deploy returns: the deferred unlock runs and the caller has its answer.
DeployReturn(p) ==
  /\ dep[p].pc = "return"
  /\ mu' = IF mu = p THEN "none" ELSE mu
  /\ dep' = [dep EXCEPT ![p] = IdleDep]
  /\ UNCHANGED <<envFile, wc, deploys, lastWriter, outsideDeploy>>

DeployStep(p) ==
  \/ \E s \in Stacks, t \in Tags, m \in Modes : DeployCall(p, s, t, m)
  \/ DeployLock(p)
  \/ DeploySnapshot(p)
  \/ DeployUpdate(p)
  \/ DeployResolve(p)
  \/ DeploySync(p)
  \/ DeployManager(p)
  \/ DeployRun(p)
  \/ DeployReturn(p)

NextDeploy == \E p \in Callers : DeployStep(p)

\* ------------------------------------- Deploy, its context and processes
\* ctxDone: the context the caller gave Deploy is cancelled or past its
\* deadline; expired: CommandTimeout has passed since WithTimeout; pc
\* "git" and "docker": Deploy waits for an external process that does
\* not end by itself; proc "killed": the process was killed through its
\* context and the step it belongs to sees it fail.

\* EnsureRemoteStack is given context.Background(): never done.
SyncCtxDone(d) == FALSE

\* manager.Run is given context.WithTimeout(ctx, CommandTimeout).
RunCtxDone(d) == d.ctxDone \/ d.expired

\* The caller cancels, or its deadline passes.
DeployCancel(p) ==
  /\ dep[p].pc # "idle"
  /\ ~dep[p].ctxDone
  /\ dep' = [dep EXCEPT ![p].ctxDone = TRUE]
  /\ UNCHANGED <<envFile, wc, mu, deploys, lastWriter, outsideDeploy>>

\* A git process of the sync hangs, or the docker process of a run that
\* gets as far as docker compose.
DeployHang(p) ==
  /\ dep[p].pc \in {"sync", "run"}
  /\ dep[p].proc = "none"
  /\ dep[p].pc = "run" =>
        \E x \in ManagerRun(dep[p].stack, fs[dep[p].stack], dep[p].mode, dep[p].mgr, envFile) :
           x.ran
  /\ dep' = [dep EXCEPT ![p].pc = IF dep[p].pc = "sync" THEN "git" ELSE "docker"]
  /\ UNCHANGED <<envFile, wc, mu, deploys, lastWriter, outsideDeploy>>

\* CommandTimeout passes while the run waits for docker.
DeployTimeout(p) ==
  /\ dep[p].pc = "docker"
  /\ ~dep[p].expired
  /\ dep' = [dep EXCEPT ![p].expired = TRUE]
  /\ UNCHANGED <<envFile, wc, mu, deploys, lastWriter, outsideDeploy>>

\* exec.CommandContext kills the process once its context is done.
DeployKill(p) ==
  /\ dep[p].pc \in {"git", "docker"}
  /\ IF dep[p].pc = "git" THEN SyncCtxDone(dep[p]) ELSE RunCtxDone(dep[p])
  /\ dep' = [dep EXCEPT ![p].pc = IF dep[p].pc = "git" THEN "sync" ELSE "run",
                          ![p].proc = "killed"]
  /\ UNCHANGED <<envFile, wc, mu, deploys, lastWriter, outsideDeploy>>

\* The steps Deploy takes by itself once called.
DeployProgress(p) ==
  \/ DeployLock(p)
  \/ DeploySnapshot(p)
  \/ DeployUpdate(p)
  \/ DeployResolve(p)
  \/ DeploySync(p)
  \/ DeployManager(p)
  \/ DeployRun(p)
  \/ DeployReturn(p)
  \/ DeployTimeout(p)
  \/ DeployKill(p)

NextDeployLive ==
  \/ NextDeploy
  \/ \E p \in Callers : DeployCancel(p)
  \/ \E p \in Callers : DeployHang(p)
  \/ \E p \in Callers : DeployTimeout(p)
  \/ \E p \in Callers : DeployKill(p)

\* ------------------------------------------ Scheduler.Start/Reload/Stop
SchedCall(t, op) ==
  /\ sth[t].pc = "idle"
  /\ scalls < MaxSchedCalls
  /\ scalls' = scalls + 1
  /\ sth' = [sth EXCEPT ![t] = [IdleThread EXCEPT !.pc = op]]
  /\ UNCHANGED <<smu, cron, sjobs, drv, crun, queued, skips, rodPending, rodRun, outsideSched>>

\* The effect of startLocked on the scheduler, by the thread holding s.mu.
Arm(jobs) ==
  LET r == startLocked(jobs)
      d == CHOOSE x \in Drivers : drv[x].state = "none" /\ \A y \in Drivers : drv[y].state = "none" => x <= y
  IN /\ rodPending' = [s \in Stacks |->
                         IF s \in r.spawned /\ rodPending[s] < MaxInst
                         THEN rodPending[s] + 1 ELSE rodPending[s]]
     /\ IF r.armed
        THEN /\ drv' = [drv EXCEPT ![d] = [entries |-> r.entries, state |-> "running"]]
             /\ cron' = d
        ELSE UNCHANGED <<drv, cron>>

\* Start: under s.mu, nothing if a driver is armed, else startLocked.
SchedStart(t) ==
  /\ Alive
  /\ sth[t].pc = "start"
  /\ smu = "none"
  /\ IF cron # 0 THEN UNCHANGED <<cron, drv, rodPending>> ELSE Arm(sjobs)
  /\ sth' = [sth EXCEPT ![t] = [IdleThread EXCEPT !.err = (cron = 0 /\ startLocked(sjobs).err)]]
  /\ UNCHANGED <<smu, sjobs, scalls, crun, queued, skips, rodRun, outsideSched>>

\* Reload: s.mu.Lock()
ReloadLock(t) ==
  /\ Alive
  /\ sth[t].pc = "reload"
  /\ smu = "none"
  /\ smu' = t
  /\ sth' = [sth EXCEPT ![t].pc = "discover", ![t].was = cron, ![t].had = sjobs]
  /\ UNCHANGED <<cron, sjobs, drv, scalls, crun, queued, skips, rodPending, rodRun, outsideSched>>

\* Reload: discoverJobs, and on success s.cron.Stop() if a driver is armed.
ReloadDiscover(t) ==
  /\ Alive
  /\ sth[t].pc = "discover"
  /\ \/ /\ sth' = [sth EXCEPT ![t] = [IdleThread EXCEPT !.err = TRUE]]
        /\ smu' = "none"
        /\ UNCHANGED drv
     \/ /\ sth' = [sth EXCEPT ![t].pc = IF cron # 0 THEN "drain" ELSE "arm",
                                ![t].jobs = discoverJobs(fs)]
        /\ drv' = IF cron # 0 THEN [drv EXCEPT ![cron].state = "stopped"] ELSE drv
        /\ UNCHANGED smu
  /\ UNCHANGED <<cron, sjobs, scalls, crun, queued, skips, rodPending, rodRun, outsideSched>>

\* A Reload or Stop that does not wait for the context.
DrainedNoWait(d) == TRUE

\* The context cron.Stop() returns is done: no job the driver started is
\* still running.
Drained(d) == \A s \in Stacks : crun[d][s] = 0 /\ queued[d][s] = 0

\* Reload: <-ctx.Done(); s.cron = nil
ReloadDrained(t) ==
  /\ Alive
  /\ sth[t].pc = "drain"
  /\ Drained(cron)
  /\ cron' = 0
  /\ sth' = [sth EXCEPT ![t].pc = "arm"]
  /\ UNCHANGED <<smu, sjobs, drv, scalls, crun, queued, skips, rodPending, rodRun, outsideSched>>

\* Reload: s.jobs = jobs; return s.startLocked()
ReloadArm(t) ==
  /\ Alive
  /\ sth[t].pc = "arm"
  /\ sjobs' = sth[t].jobs
  /\ Arm(sth[t].jobs)
  /\ smu' = "none"
  /\ sth' = [sth EXCEPT ![t] = [IdleThread EXCEPT !.err = startLocked(sth[t].jobs).err]]
  /\ UNCHANGED <<scalls, crun, queued, skips, rodRun, outsideSched>>

\* Stop: under s.mu, nothing if no driver is armed, else s.cron.Stop().
SchedStop(t) ==
  /\ Alive
  /\ sth[t].pc = "stop"
  /\ smu = "none"
  /\ IF cron = 0
     THEN /\ sth' = [sth EXCEPT ![t] = IdleThread]
          /\ UNCHANGED <<smu, drv>>
     ELSE /\ sth' = [sth EXCEPT ![t].pc = "stopdrain"]
          /\ smu' = t
          /\ drv' = [drv EXCEPT ![cron].state = "stopped"]
  /\ UNCHANGED <<cron, sjobs, scalls, crun, queued, skips, rodPending, rodRun, outsideSched>>

\* Stop: <-ctx.Done(); s.cron = nil
StopDrained(t) ==
  /\ Alive
  /\ sth[t].pc = "stopdrain"
  /\ Drained(cron)
  /\ cron' = 0
  /\ smu' = "none"
  /\ sth' = [sth EXCEPT ![t] = IdleThread]
  /\ UNCHANGED <<sjobs, drv, scalls, crun, queued, skips, rodPending, rodRun, outsideSched>>

\* cron.DelayIfStillRunning, the wrapper a slip would have chained.
DelayIfStillRunning(busy) == IF busy THEN "delay" ELSE "run"

\* cron.SkipIfStillRunning: what the wrapper does with a firing whose
\* predecessor is (busy) or is not still running.
SkipIfStillRunning(busy) == IF busy THEN "skip" ELSE "run"

\* A schedule of driver d comes due for job s.
Fire(d, s) ==
  /\ Alive
  /\ drv[d].state = "running"
  /\ s \in drv[d].entries
  /\ LET what == SkipIfStillRunning(crun[d][s] > 0)
     IN /\ what = "delay" => queued[d][s] < MaxInst
        /\ crun' = IF what = "run" THEN [crun EXCEPT ![d][s] = @ + 1] ELSE crun
        /\ skips' = IF what = "skip" THEN skips \cup {<<d, s>>} ELSE skips
        /\ queued' = IF what = "delay" THEN [queued EXCEPT ![d][s] = @ + 1] ELSE queued
        /\ sth' = [t \in SThreads |->
                     IF sth[t].pc = "discover" /\ d = cron /\ what = "run"
                     THEN [sth[t] EXCEPT !.fired = TRUE] ELSE sth[t]]
  /\ UNCHANGED <<smu, cron, sjobs, drv, scalls, rodPending, rodRun, outsideSched>>

\* An instance a firing started returns from Scheduler.execute; a delayed
\* firing, if any, takes its place.
JobFinish(d, s) ==
  /\ Alive
  /\ crun[d][s] > 0
  /\ IF queued[d][s] > 0
     THEN queued' = [queued EXCEPT ![d][s] = @ - 1] /\ UNCHANGED crun
     ELSE crun' = [crun EXCEPT ![d][s] = @ - 1] /\ UNCHANGED queued
  /\ skips' = skips \ {<<d, s>>}
  /\ UNCHANGED <<smu, cron, sjobs, drv, sth, scalls, rodPending, rodRun, outsideSched>>

\* A run-on-deploy goroutine spawned by startLocked gets to s.execute(j).
RodStart(s) ==
  /\ Alive
  /\ rodPending[s] > 0
  /\ rodRun[s] < MaxInst
  /\ rodPending' = [rodPending EXCEPT ![s] = @ - 1]
  /\ rodRun' = [rodRun EXCEPT ![s] = @ + 1]
  /\ UNCHANGED <<smu, cron, sjobs, drv, sth, scalls, crun, queued, skips, outsideSched>>

RodFinish(s) ==
  /\ Alive
  /\ rodRun[s] > 0
  /\ rodRun' = [rodRun EXCEPT ![s] = @ - 1]
  /\ UNCHANGED <<smu, cron, sjobs, drv, sth, scalls, crun, queued, skips, rodPending, outsideSched>>

SchedStep(t) ==
  \/ \E op \in {"start", "reload", "stop"} : SchedCall(t, op)
  \/ SchedStart(t)
  \/ ReloadLock(t)
  \/ ReloadDiscover(t)
  \/ ReloadDrained(t)
  \/ ReloadArm(t)
  \/ SchedStop(t)
  \/ StopDrained(t)

JobStep ==
  \/ \E d \in Drivers, s \in Stacks : Fire(d, s)
  \/ \E d \in Drivers, s \in Stacks : JobFinish(d, s)
  \/ \E s \in Stacks : RodStart(s)
  \/ \E s \in Stacks : RodFinish(s)

\* The scheduler under arbitrary callers, with the stacks directory
\* edited meanwhile.
NextSched ==
  \/ \E t \in SThreads : SchedStep(t)
  \/ JobStep
  \/ \E s \in Stacks : \E k \in {"absent", "local", "localbad"} \ {fs[s]} : FsEdit(s, k)

InitSched == Init /\ envFile = EmptyFile /\ continueOnArchiveError

SpecSched == InitSched /\ [][NextSched]_vars

InitDeploy == Init /\ envFile # EmptyFile /\ continueOnArchiveError

SpecDeploy == InitDeploy /\ [][NextDeploy]_vars

\* One layout with a local and two remote stacks, one environment file.
InitDeployLive ==
  /\ Init
  /\ envFile = File(<<comment("tags"), kv("TAG", "v1"), kv("VER", "v1"), kv("DB", "x")>>, TRUE, FALSE)
  /\ fs = [s \in Stacks |-> IF s = "A" THEN "local" ELSE "remote"]
  /\ continueOnArchiveError

\* Deploy with its context: every step Deploy takes by itself is taken
\* in the end; calls, cancellations and hanging processes are not owed.
SpecDeployLive ==
  /\ InitDeployLive
  /\ [][NextDeployLive]_vars
  /\ \A p \in Callers : WF_vars(DeployProgress(p))

\* ------------------------------------------ main, watch.run, the callback
\* main's loadStackNames: the directories that hold a docker-compose.yml.
loadStackNames(f) == {s \in Stacks : hasLocalCompose(f[s])}

\* A tracker that keeps the names it knew (merges instead of replacing).
TrackerUpdateMerge(stacks, current) ==
  [removed |-> stacks \ current, stacks |-> stacks \cup current]

\* removal.Tracker.Update(current): the names of the stored set missing
\* from current, and the stored set afterwards.
TrackerUpdate(stacks, current) ==
  [removed |-> stacks \ current, stacks |-> current]

\* removal.Tracker.Initialize(stacks)
TrackerInitialize(stacks) == stacks

\* A handler that gives up on cleanup after any archive error.
SkipCleanupOnError(archiveFailed, continueOnError) == archiveFailed

\* handleRemovedStack: whether the archive outcome makes it return before
\* the cleanup phase.
SkipCleanup(archiveFailed, continueOnError) == archiveFailed /\ ~continueOnError

\* removal.Cleanup: docker compose down if the compose file is still
\* there, else removal by project label.
CleanupMode(k) == IF hasLocalCompose(k) THEN "down" ELSE "label"

\* A callback that reloads without waiting for the removal check.
CheckForRemovalsPending == FALSE

\* The callback is still inside removalHandler.CheckForRemovals.
CheckForRemovalsRunning == rq # {} \/ cur # "none"

\* main: scheduler.Start()
MainStart ==
  /\ mpc = "boot"
  /\ mpc' = "starting"
  /\ sth' = [sth EXCEPT !["main"] = [IdleThread EXCEPT !.pc = "start"]]
  /\ UNCHANGED <<smu, cron, sjobs, drv, scalls, crun, queued, skips, rodPending, rodRun>>
  /\ UNCHANGED <<fsVars, deployVars, engineVars, watching, pending, wpc, removalVars>>

\* main after Start: log.Fatalf on its error; else seed the tracker from
\* loadStackNames (a failure leaves it empty) and start the watcher (a
\* failure disables it).
MainSeed ==
  /\ mpc = "starting"
  /\ sth["main"].pc = "idle"
  /\ IF sth["main"].err
     THEN /\ mpc' = "exited"
          /\ UNCHANGED <<tracker, lastInv, watching>>
     ELSE /\ mpc' = "serving"
          /\ \/ tracker' = TrackerInitialize(loadStackNames(fs))
             \/ UNCHANGED tracker
          /\ lastInv' = tracker'
          /\ watching' \in BOOLEAN
  /\ UNCHANGED <<fsVars, deployVars, engineVars, schedVars, pending, wpc>>
  /\ UNCHANGED <<continueOnArchiveError, rq, cur, arch, clean, prevInv, reported, prevReported>>

\* main on a signal: watchCancel(), then scheduler.Stop().
MainShutdown ==
  /\ mpc = "serving"
  /\ mpc' = "stopping"
  /\ watching' = FALSE
  /\ sth' = [sth EXCEPT !["main"] = [IdleThread EXCEPT !.pc = "stop"]]
  /\ UNCHANGED <<smu, cron, sjobs, drv, scalls, crun, queued, skips, rodPending, rodRun>>
  /\ UNCHANGED <<fsVars, deployVars, engineVars, pending, wpc, removalVars>>

\* main returns once Stop has returned: the process is gone.
MainExit ==
  /\ mpc = "stopping"
  /\ sth["main"].pc = "idle"
  /\ mpc' = "exited"
  /\ UNCHANGED <<fsVars, deployVars, engineVars, schedVars, watching, pending, wpc, removalVars>>

\* watch.run reads an event: trigger() arms or re-arms the debounce timer.
WatchEvent ==
  /\ Alive
  /\ watching
  /\ wpc = "idle"
  /\ evq > 0
  /\ evq' = evq - 1
  /\ pending' = TRUE
  /\ UNCHANGED <<fs, edits, deployVars, engineVars, schedVars, mpc, watching, wpc, removalVars>>

\* watch.run: the timer fires and the loop calls cb(last).
WatchTimer ==
  /\ Alive
  /\ watching
  /\ wpc = "idle"
  /\ pending
  /\ pending' = FALSE
  /\ wpc' = "load"
  /\ UNCHANGED <<fsVars, deployVars, engineVars, schedVars, mpc, watching, removalVars>>

\* The callback: loadStackNames (an error ends it), then
\* CheckForRemovals begins with Tracker.Update.
CbLoad ==
  /\ Alive
  /\ wpc = "load"
  /\ \/ /\ wpc' = "idle"
        /\ UNCHANGED removalVars
     \/ LET current == loadStackNames(fs)
            u == TrackerUpdate(tracker, current)
        IN /\ tracker' = u.stacks
           /\ rq' = u.removed
           /\ reported' = u.removed
           /\ prevReported' = reported
           /\ prevInv' = lastInv
           /\ lastInv' = current
           /\ arch' = [s \in Stacks |-> "none"]
           /\ clean' = [s \in Stacks |-> "none"]
           /\ wpc' = "removals"
           /\ UNCHANGED <<continueOnArchiveError, cur>>
  /\ UNCHANGED <<fsVars, deployVars, engineVars, schedVars, mpc, watching, pending>>

\* handleRemovedStack(s) begins: Archive(s, ...) is running.
ArchiveStart(s) ==
  /\ Alive
  /\ wpc = "removals"
  /\ cur = "none"
  /\ s \in rq
  /\ cur' = s
  /\ arch' = [arch EXCEPT ![s] = "running"]
  /\ UNCHANGED <<tracker, continueOnArchiveError, rq, clean, lastInv, prevInv, reported, prevReported>>
  /\ UNCHANGED <<fsVars, deployVars, engineVars, schedVars, mpc, watching, pending, wpc>>

\* Archive returns; on an error handleRemovedStack returns or goes on,
\* as configured.
ArchiveEnd(s) ==
  /\ Alive
  /\ cur = s
  /\ arch[s] = "running"
  /\ \E failed \in BOOLEAN :
        /\ arch' = [arch EXCEPT ![s] = IF failed THEN "failed" ELSE "ok"]
        /\ IF SkipCleanup(failed, continueOnArchiveError)
           THEN /\ clean' = [clean EXCEPT ![s] = "skipped"]
                /\ cur' = "none"
                /\ rq' = rq \ {s}
           ELSE UNCHANGED <<clean, cur, rq>>
  /\ UNCHANGED <<tracker, continueOnArchiveError, lastInv, prevInv, reported, prevReported>>
  /\ UNCHANGED <<fsVars, deployVars, engineVars, schedVars, mpc, watching, pending, wpc>>

\* Cleanup(ctx, s, stacksDir) begins: it looks for the compose file.
CleanupStart(s) ==
  /\ Alive
  /\ cur = s
  /\ arch[s] \in {"ok", "failed"}
  /\ clean[s] = "none"
  /\ clean' = [clean EXCEPT ![s] = CleanupMode(fs[s])]
  /\ UNCHANGED <<tracker, continueOnArchiveError, rq, cur, arch, lastInv, prevInv, reported, prevReported>>
  /\ UNCHANGED <<fsVars, deployVars, engineVars, schedVars, mpc, watching, pending, wpc>>

\* Cleanup returns (its error is only logged); handleRemovedStack returns.
CleanupEnd(s) ==
  /\ Alive
  /\ cur = s
  /\ clean[s] \in {"down", "label"}
  /\ clean' = [clean EXCEPT ![s] = IF @ = "down" THEN "downDone" ELSE "labelDone"]
  /\ cur' = "none"
  /\ rq' = rq \ {s}
  /\ UNCHANGED <<tracker, continueOnArchiveError, arch, lastInv, prevInv, reported, prevReported>>
  /\ UNCHANGED <<fsVars, deployVars, engineVars, schedVars, mpc, watching, pending, wpc>>

\* The callback, CheckForRemovals having returned, calls scheduler.Reload().
CbReload ==
  /\ Alive
  /\ wpc = "removals"
  /\ ~CheckForRemovalsRunning
  /\ wpc' = "reloading"
  /\ sth' = [sth EXCEPT !["w"] = [IdleThread EXCEPT !.pc = "reload"]]
  /\ UNCHANGED <<smu, cron, sjobs, drv, scalls, crun, queued, skips, rodPending, rodRun>>
  /\ UNCHANGED <<fsVars, deployVars, engineVars, mpc, watching, pending, removalVars>>

\* Reload has returned (its error is only logged): the callback returns.
CbReturn ==
  /\ Alive
  /\ wpc = "reloading"
  /\ sth["w"].pc = "idle"
  /\ wpc' = "idle"
  /\ UNCHANGED <<fsVars, deployVars, engineVars, schedVars, mpc, watching, pending, removalVars>>

\* What an edit of the stacks directory makes of a stack directory here:
\* it removes it, (re)writes its compose file, or turns it into a remote
\* stack.
WatchKinds == {"absent", "local", "remote"}

MainStep == MainStart \/ MainSeed \/ MainShutdown \/ MainExit

WatchStep == WatchEvent \/ WatchTimer \/ CbLoad \/ CbReload \/ CbReturn

RemovalStep ==
  \E s \in Stacks : ArchiveStart(s) \/ ArchiveEnd(s) \/ CleanupStart(s) \/ CleanupEnd(s)

SchedInternal(t) ==
  \/ SchedStart(t)
  \/ ReloadLock(t)
  \/ ReloadDiscover(t)
  \/ ReloadDrained(t)
  \/ ReloadArm(t)
  \/ SchedStop(t)
  \/ StopDrained(t)

\* main, the watcher and its callback, and the scheduler calls they make,
\* with the stacks directory edited meanwhile, until main exits.
NextWatch ==
  \/ MainStep
  \/ WatchStep
  \/ RemovalStep
  \/ \E t \in SThreads : SchedInternal(t)
  \/ \E s \in Stacks, k \in WatchKinds : FsEdit(s, k)

InitWatch == Init /\ envFile = EmptyFile

SpecWatch == InitWatch /\ [][NextWatch]_vars

\* The same with the cron jobs firing and running meanwhile.
NextDaemon == NextWatch \/ JobStep

SpecDaemon == InitWatch /\ [][NextDaemon]_vars

\* ------------------------------------------- RetryImagePull, step by step
notRetry == <<deployVars, fsVars, schedVars, watchVars, deb, cj, ct, ds, rv, jx, cl, uf>>

\* The loop head and body up to the wait: the loop ends when attempt
\* exceeds MaxAttempts; else the operation is invoked, success returns
\* nil, the last failure returns the exhausted error, any other failure
\* goes to the wait.
RetryAttempt ==
  /\ retry.pc = "loop"
  /\ IF retry.attempt > retry.cfg.maxAttempts
     THEN retry' = [retry EXCEPT !.pc = "done", !.result = "exhausted"]
     ELSE \E ok \in BOOLEAN :
            retry' = IF ok
                     THEN [retry EXCEPT !.calls = @ + 1, !.lastOk = TRUE,
                                        !.pc = "done", !.result = "ok"]
                     ELSE IF LastAttempt(retry.attempt, retry.cfg)
                     THEN [retry EXCEPT !.calls = @ + 1, !.lastOk = FALSE,
                                        !.pc = "done", !.result = "exhausted"]
                     ELSE [retry EXCEPT !.calls = @ + 1, !.lastOk = FALSE,
                                        !.pc = "wait", !.due = FALSE]
  /\ UNCHANGED notRetry

\* time.After(delay) fires while the select is still waiting.
RetryTimer ==
  /\ retry.pc = "wait"
  /\ Select(retry.due, retry.ctxDone) = {}
  /\ retry' = [retry EXCEPT !.due = TRUE]
  /\ UNCHANGED notRetry

\* The caller's context is cancelled (or its deadline passes).
RetryCancel ==
  /\ retry.pc \in {"loop", "wait"}
  /\ ~retry.ctxDone
  /\ retry' = [retry EXCEPT !.ctxDone = TRUE,
                            !.cancelledAt = IF retry.pc = "wait" /\ ~retry.due
                                            THEN retry.calls ELSE @]
  /\ UNCHANGED notRetry

\* The select returns: after the timer the next delay is computed and the
\* loop goes on; after ctx.Done() the cancellation error is returned.
RetrySelect ==
  /\ retry.pc = "wait"
  /\ \E c \in Select(retry.due, retry.ctxDone) :
        retry' = IF c = "timer"
                 THEN [retry EXCEPT !.waits = Append(@, retry.delay),
                                    !.delay = NextDelay(retry.delay, retry.cfg),
                                    !.attempt = @ + 1, !.pc = "loop"]
                 ELSE [retry EXCEPT !.pc = "done", !.result = "cancelled"]
  /\ UNCHANGED notRetry

NextRetry == RetryAttempt \/ RetryTimer \/ RetryCancel \/ RetrySelect

InitRetry ==
  /\ Init
  /\ envFile = EmptyFile
  /\ fs = [s \in Stacks |-> "local"]
  /\ continueOnArchiveError

\* RetryImagePull(ctx, operation, cfg) is called with any configuration.
RetryCall ==
  /\ retry.pc = "idle"
  /\ \E c \in RetryConfigs :
        retry' = [IdleRetry EXCEPT !.pc = "loop", !.cfg = c, !.delay = c.initialDelay]
  /\ UNCHANGED notRetry

SpecRetry == InitRetry /\ [][RetryCall \/ NextRetry]_vars

\* RetryImagePull(ctx, operation, remote.DefaultRetryConfig())
RetryCallDefault ==
  /\ retry.pc = "idle"
  /\ retry' = [IdleRetry EXCEPT !.pc = "loop", !.cfg = DefaultRetryConfig,
                                !.delay = DefaultRetryConfig.initialDelay]
  /\ UNCHANGED notRetry

\* RetryImagePull under the default policy or under one of the caller's.
SpecRetryDefault == InitRetry /\ [][RetryCallDefault \/ RetryCall \/ NextRetry]_vars

\* ------------------------------------------------- watch.run, step by step
notRun == <<deployVars, fsVars, schedVars, watchVars, retry, cj, ct, ds, rv, jx, cl, uf>>

\* fsnotify delivers an event; it waits in watcher.Events until run
\* receives it.  Once run has returned the watcher is closed.
RunNotify ==
  /\ deb.pc # "stopped"
  /\ Len(deb.evs) < MaxEvents
  /\ \E e \in Events :
        deb' = [deb EXCEPT !.evs = Append(@, [path |-> e.path, op |-> e.op, at |-> deb.now])]
  /\ UNCHANGED notRun

\* The runtime fires the armed timer at its deadline: a value in timer.C.
RunTimerFire ==
  /\ deb.timerAt # -1
  /\ deb.timerAt <= deb.now
  /\ deb' = [deb EXCEPT !.timerAt = -1, !.timerC = TRUE]
  /\ UNCHANGED notRun

\* case event := <-watcher.Events: events of other kinds are skipped, a
\* change goes to trigger.
RunEvent ==
  /\ deb.pc = "select"
  /\ deb.read < Len(deb.evs)
  /\ LET e == deb.evs[deb.read + 1]
         d == [deb EXCEPT !.read = @ + 1]
     IN deb' = IF IsChange(e.op) THEN trigger(d, e.path) ELSE d
  /\ UNCHANGED notRun

\* case <-timer.C: nothing pending, continue; else the callback is called
\* with the last path, inside the loop.
RunTimer ==
  /\ deb.pc = "select"
  /\ deb.timerC
  /\ deb' = IF ~deb.pending
            THEN [deb EXCEPT !.timerC = FALSE]
            ELSE [deb EXCEPT !.timerC = FALSE, !.pending = FALSE, !.pc = "cb",
                             !.cbs = Append(@, [path |-> deb.last, at |-> deb.now,
                                                readAt |-> deb.lastRead,
                                                upto |-> deb.read])]
  /\ UNCHANGED notRun

\* The callback returns, after any time, and the loop selects again.
RunCallbackReturn ==
  /\ deb.pc = "cb"
  /\ deb' = [deb EXCEPT !.pc = "select"]
  /\ UNCHANGED notRun

\* The context of the watcher is cancelled.
RunCancel ==
  /\ ~deb.ctxDone
  /\ deb.pc # "stopped"
  /\ deb' = [deb EXCEPT !.ctxDone = TRUE]
  /\ UNCHANGED notRun

\* case <-ctx.Done(): return
RunExit ==
  /\ deb.pc = "select"
  /\ deb.ctxDone
  /\ deb' = [deb EXCEPT !.pc = "stopped"]
  /\ UNCHANGED notRun

\* Something can happen without time passing: the timer is due, or run
\* sits in its select with a case ready.
RunUrgent ==
  \/ deb.timerAt # -1 /\ deb.timerAt <= deb.now
  \/ deb.pc = "select" /\ (deb.read < Len(deb.evs) \/ deb.timerC \/ deb.ctxDone)

\* Time passes, once nothing is left to do at this instant.
RunTick ==
  /\ deb.pc # "stopped"
  /\ deb.now < MaxTime
  /\ ~RunUrgent
  /\ deb' = [deb EXCEPT !.now = @ + 1]
  /\ UNCHANGED notRun

NextRun ==
  RunNotify \/ RunTimerFire \/ RunEvent \/ RunTimer \/ RunCallbackReturn
  \/ RunCancel \/ RunExit \/ RunTick

SpecDebounce == InitRetry /\ [][NextRun]_vars

\* ----------------------------------------- jobs of one compose file
notJobs == <<deployVars, fsVars, schedVars, watchVars, retry, deb, ct, ds, rv, jx, cl, uf>>

\* A compose file is written, each service with or without the label.
ComposeWrite ==
  /\ cj.pc = "none"
  /\ \E c \in [Services -> ScheduleLabels] :
        cj' = [NoCompose EXCEPT !.pc = "written", !.compose = c]
  /\ UNCHANGED notJobs

\* The scheduler starts: discoverJobs, then every job is registered on
\* the cron driver with its schedule.
JobsStart ==
  /\ cj.pc = "written"
  /\ cj' = [cj EXCEPT !.pc = "started", !.jobs = serviceJobs(cj.compose),
                      !.entries = {job.service : job \in serviceJobs(cj.compose)}]
  /\ UNCHANGED notJobs

\* stackr <stack> run-cron <service>
JobsRunCron ==
  /\ cj.pc # "none"
  /\ \E sv \in Services :
        /\ cj.manual[sv] = "none"
        /\ cj' = [cj EXCEPT !.manual[sv] = ExecuteJobManually(cj.compose, sv)]
  /\ UNCHANGED notJobs

SpecJobs == InitRetry /\ [][ComposeWrite \/ JobsStart \/ JobsRunCron]_vars

\* ------------------------------------------------- job containers
notContainers == <<deployVars, fsVars, schedVars, watchVars, retry, deb, cj, ds, rv, jx, cl, uf>>

\* A job runs, a second after the run before: its container is named
\* after the job and the time.
ContainerRun ==
  /\ ct.runs < MaxRuns
  /\ \E job \in CronJobs :
        ct' = [ct EXCEPT !.runs = @ + 1, !.cleaned = "none",
                         !.containers = @ \cup {[job |-> job, ts |-> Epoch + ct.runs,
                                                 name |-> GenerateContainerName(job, Epoch + ct.runs)]}]
  /\ UNCHANGED notContainers

\* The scheduler calls CleanupOldContainers, at startup and every 6 hours.
ContainerCleanup ==
  /\ ct.cleaned = "none"
  /\ ct.containers # {}
  /\ \E retention \in Retentions, outcome \in {"ok", "list failed", "rm failed"} :
        LET kept == CleanupOldContainers({c.name : c \in ct.containers}, retention, outcome)
        IN ct' = [ct EXCEPT !.before = ct.containers, !.retention = retention,
                            !.cleaned = outcome,
                            !.containers = {c \in @ : c.name \in kept}]
  /\ UNCHANGED notContainers

SpecContainers == InitRetry /\ [][ContainerRun \/ ContainerCleanup]_vars

\* ------------------------------------------------- discovery of stacks
notDiscovery == <<deployVars, fsVars, schedVars, watchVars, retry, deb, cj, ct, rv, jx, cl, uf>>

\* The operator lays out the stacks directory.
LayoutWrite ==
  /\ ds.pc = "none"
  /\ \E l \in [Stacks -> DirKinds] :
        ds' = [NoLayout EXCEPT !.pc = "laid", !.layout = l]
  /\ UNCHANGED notDiscovery

\* stackcmd.DiscoverStacks(cfg)
DiscoverCall ==
  /\ ds.pc = "laid"
  /\ ds.list.err = "none"
  /\ ds' = [ds EXCEPT !.list = DiscoverStacks(ds.layout)]
  /\ UNCHANGED notDiscovery

\* stackcmd.ResolveStackPath(cfg, s)
ResolveCall ==
  /\ ds.pc = "laid"
  /\ \E s \in Stacks :
        /\ ds.info[s].err = "none"
        /\ LET k == ds.layout[s]
               r == ResolveStackPath(k)
           IN ds' = [ds EXCEPT !.info[s] =
                       IF r.err # "" THEN [err |-> r.err]
                       ELSE [err |-> "", info |-> StackInfo(s, k, r.type)]]
  /\ UNCHANGED notDiscovery

SpecDiscovery == InitRetry /\ [][LayoutWrite \/ DiscoverCall \/ ResolveCall]_vars

\* ------------------------------------------------- release refs
notRef == <<deployVars, fsVars, schedVars, watchVars, retry, deb, cj, ct, ds, jx, cl, uf>>

\* A descriptor's release.ref and the values of the environment file.
RefChoose ==
  /\ rv.pc = "none"
  /\ \E ref \in RefsUpTo(MaxRefLen), e \in RefEnvs :
        rv' = [NoRef EXCEPT !.pc = "chosen", !.ref = ref, !.envVars = e]
  /\ UNCHANGED notRef

\* config.ResolveVersionRef(ref, envVars)
RefResolve ==
  /\ rv.pc = "chosen"
  /\ rv' = [rv EXCEPT !.pc = "resolved", !.out = ResolveVersionRef(rv.ref, rv.envVars)]
  /\ UNCHANGED notRef

SpecRef == InitRetry /\ [][RefChoose \/ RefResolve]_vars

\* ------------------------------------------- cron jobs beside deploys
\* Two local stacks with a scheduled job each, a remote stack, and the
\* environment file f; Start has armed the first driver and spawned the
\* run-on-deploy jobs; one Deploy and one scheduler call are still to come.
ServingWith(f) ==
  /\ envFile = f
  /\ fs = [s \in Stacks |-> IF s = "C" THEN "remote" ELSE "local"]
  /\ edits = 0
  /\ wc = [s \in Stacks |-> NoCopy]
  /\ mu = "none"
  /\ dep = [p \in Callers |-> IdleDep]
  /\ deploys = MaxDeploys - 1
  /\ lastWriter = "none"
  /\ smu = "none"
  /\ cron = 1
  /\ sjobs = discoverJobs(fs)
  /\ drv = [d \in Drivers |->
              IF d = 1 THEN [entries |-> startLocked(sjobs).entries, state |-> "running"]
              ELSE NoDriver]
  /\ sth = [t \in SThreads |-> IdleThread]
  /\ scalls = MaxSchedCalls - 1
  /\ crun = [d \in Drivers |-> [s \in Stacks |-> 0]]
  /\ queued = [d \in Drivers |-> [s \in Stacks |-> 0]]
  /\ skips = {}
  /\ rodPending = [s \in Stacks |-> IF s \in startLocked(sjobs).spawned THEN 1 ELSE 0]
  /\ rodRun = [s \in Stacks |-> 0]
  /\ mpc = "boot"
  /\ watching = FALSE
  /\ evq = 0
  /\ pending = FALSE
  /\ wpc = "idle"
  /\ tracker = {}
  /\ continueOnArchiveError = TRUE
  /\ rq = {}
  /\ cur = "none"
  /\ arch = [s \in Stacks |-> "none"]
  /\ clean = [s \in Stacks |-> "none"]
  /\ lastInv = {}
  /\ prevInv = {}
  /\ reported = {}
  /\ prevReported = {}
  /\ retry = IdleRetry
  /\ deb = IdleRun
  /\ cj = NoCompose
  /\ ct = NoContainers
  /\ ds = NoLayout
  /\ rv = NoRef
  /\ jx = NoJobExec
  /\ cl = NoCleanup
  /\ uf = NoUpdate

InitJobDeploy ==
  ServingWith(File(<<comment("tags"), kv("TAG", "v1"), kv("VER", "v1"), kv("DB", "x")>>, TRUE, FALSE))

\* The HTTP handler's deploys, the scheduler's Start, Reload and Stop and
\* the jobs of the armed driver, all in one process.
NextJobDeploy ==
  \/ NextDeploy
  \/ \E t \in SThreads : SchedStep(t)
  \/ JobStep

SpecJobDeploy == InitJobDeploy /\ [][NextJobDeploy]_vars

\* ------------------------------------- a job execution and the env file
\* Scheduler.executeInternal, beside the deploys: everything of the job
\* execution but the scheduler and the other engines.
notJobExec == <<wc, mu, dep, deploys, fsVars, schedVars, watchVars, retry, deb, cj, ct, ds, rv, cl, uf>>

\* executeInternal(job, customCmd) is entered for a job of the scheduler,
\* by a firing, a run-on-deploy goroutine or ExecuteJobManually; the image
\* is pulled first.
JobExecute(s) ==
  /\ jx.pc \in {"none", "done"}
  /\ jx.n < MaxInst
  /\ \E i \in 1..Len(sjobs) : sjobs[i].stack = s
  /\ jx' = [NoJobExec EXCEPT !.pc = "manager", !.stack = s, !.n = jx.n + 1]
  /\ UNCHANGED <<envFile, lastWriter, notJobExec>>

\* manager, err := stackcmd.NewManagerWithWriters(s.cfg, ...): the manager
\* reads the environment file, or the execution ends with the error.
JobNewManager ==
  /\ jx.pc = "manager"
  /\ \/ jx' = [jx EXCEPT !.pc = "done"]
     \/ jx' = [jx EXCEPT !.pc = "run", !.mgr = envFile]
  /\ UNCHANGED <<envFile, lastWriter, notJobExec>>

\* manager.Run(ctx, Options{Stacks: {job.Stack}, VarsOnly: true,
\* VarsCommand: composeArgs}): runStack, runCompose and in it
\* ensureStackVars, which writes the manager's copy with the missing
\* entries over the environment file.
JobManagerRun ==
  /\ jx.pc = "run"
  /\ \E o \in ManagerRun(jx.stack, fs[jx.stack], "varsonly", jx.mgr, envFile) :
       /\ envFile' = o.file
       /\ jx' = [jx EXCEPT !.pc = "done", !.wrote = (o.file # envFile)]
       /\ lastWriter' = IF o.file # envFile THEN "job" ELSE lastWriter
  /\ UNCHANGED notJobExec

NextJobExec ==
  \/ \E s \in Stacks : JobExecute(s)
  \/ JobNewManager
  \/ JobManagerRun

InitJobEnv == \E f \in InitialEnvFiles : ServingWith(f)

SpecJobEnv == InitJobEnv /\ [][NextDeploy \/ NextJobExec]_vars

\* ------------------------------------------------- removal.Cleanup
notCleanup == <<deployVars, fsVars, schedVars, watchVars, retry, deb, cj, ct, ds, rv, jx, uf>>

\* What is left in the place of the removed stack's directory, and what
\* docker will answer.
CleanupChoose ==
  /\ cl.pc = "none"
  /\ \E k \in DirKinds, d \in DockerAnswers :
        cl' = [NoCleanup EXCEPT !.pc = "chosen", !.k = k, !.docker = d]
  /\ UNCHANGED notCleanup

\* removal.Cleanup(ctx, stack, stacksDir)
CleanupCall ==
  /\ cl.pc = "chosen"
  /\ cl' = [cl EXCEPT !.pc = "done", !.out = Cleanup(cl.k, cl.docker)]
  /\ UNCHANGED notCleanup

SpecCleanup == InitRetry /\ [][CleanupChoose \/ CleanupCall]_vars

\* ------------------------------------------------- envfile.Update
notUpdate == <<deployVars, fsVars, schedVars, watchVars, retry, deb, cj, ct, ds, rv, jx, cl>>

\* The file at path and the arguments of the call.
UpdateChoose ==
  /\ uf.pc = "none"
  /\ \E f \in UpdateFiles, key \in UpdateKeys, value \in UpdateValues :
        uf' = [NoUpdate EXCEPT !.pc = "chosen", !.file = f, !.key = key, !.value = value]
  /\ UNCHANGED notUpdate

\* previous, err := envfile.Update(path, key, value) with the write succeeding
UpdateCall ==
  /\ uf.pc = "chosen"
  /\ uf' = [uf EXCEPT !.pc = "done",
                      !.out = Update(uf.file, uf.key, uf.value),
                      !.previous = UpdatePrevious(uf.file, uf.key)]
  /\ UNCHANGED notUpdate

SpecUpdate == InitRetry /\ [][UpdateChoose \/ UpdateCall]_vars

\* ---------------------------------------------------------- Deploy claims
Returned(p) == dep[p].pc = "return"
InCritical == {p \in Callers : dep[p].pc \in {"snapshot", "update", "resolve", "sync", "manager", "run", "return"}}
TagChanged(p) == Update(dep[p].before, TagEnv, dep[p].tag) # dep[p].before

C3_DeploysSerialized ==
  /\ Cardinality(InCritical) <= 1
  /\ \A p \in Callers :
        dep[p].pc \in {"resolve", "sync", "manager", "run"} => lastWriter = p

C3_Witness ==
  \E p, q \in Callers :
     /\ dep[p].pc = "run"
     /\ dep[q].pc = "lock"
     /\ lastWriter = p

\* C9 (as stated): a Deploy of a remote stack whose working copy was
\* cloned earlier and whose sync failed (the host did not answer) goes on
\* to execute the stack from the working copy: its execution step is not
\* refused for want of a compose file.
C9_AsStated ==
  \A p \in Callers :
     (Returned(p) /\ dep[p].type = "remote" /\ dep[p].hadCopy /\ dep[p].pullFailed)
        => dep[p].why # "nocompose"

\* C10 (as stated): a Deploy whose sync ended in a clone failure or a
\* checkout failure never gets to the execution step (manager
\* construction and manager.Run).
C10_AsStated ==
  \A p \in Callers :
     dep[p].sync \in {"cloneErr", "checkoutErr"} => dep[p].pc \notin {"manager", "run"}

\* ------------------------------------------------------- Scheduler claims
InReload(t) == sth[t].pc \in {"drain", "arm"}

\* C4 (as stated): no instance of the schedule a Reload supersedes starts
\* after that Reload call has begun.
C4_AsStated == \A t \in SThreads : InReload(t) => ~sth[t].fired

\* C4: a driver is armed only when every other driver is stopped and
\* drained (none of its instances is still executing), and a scheduled
\* firing starts no instance on a driver that is not running: the
\* superseded schedule starts nothing once Reload has stopped its driver.
C4_DrainedBeforeArmed ==
  /\ [](\A d \in Drivers : drv[d].state = "running" =>
          \A e \in Drivers \ {d} :
             /\ drv[e].state # "running"
             /\ \A s \in Stacks : crun[e][s] = 0 /\ queued[e][s] = 0)
  /\ [][\A d \in Drivers, s \in Stacks :
          drv[d].state # "running" => crun'[d][s] <= crun[d][s]]_vars

C4_Witness ==
  \E t \in SThreads :
     /\ sth[t].pc = "drain"
     /\ drv[cron].state = "stopped"
     /\ \E s \in Stacks : crun[cron][s] > 0

\* C5: a scheduled firing that finds the previous instance of its job
\* still executing starts nothing and leaves nothing queued: a job has at
\* most one instance started by a firing, and no firing waits.
C5_SkippedNotQueued ==
  \A d \in Drivers, s \in Stacks : crun[d][s] <= 1 /\ queued[d][s] = 0

C5_Witness ==
  \E d \in Drivers, s \in Stacks : <<d, s>> \in skips /\ crun[d][s] = 1

\* --------------------------------------------------------- Removal claims
Handled(s) == s \in reported /\ s \notin rq /\ cur # s

\* C6: the tracker holds exactly the inventory of the last check (or the
\* seed), and the last check reported exactly the names of the previous
\* inventory that are missing from the current one.
C6_RemovalSetDifference ==
  /\ tracker = lastInv
  /\ reported = prevInv \ lastInv

C6_Witness ==
  /\ prevReported = {"B"}
  /\ prevInv = {"A", "C"}
  /\ lastInv = {"A", "C"}
  /\ reported = {}
  /\ tracker = {"A", "C"}

\* C7: cleanup of a removed stack starts only after its archive attempt
\* has finished; after a failed archive the cleanup is skipped if
\* ContinueOnArchiveError is false and performed if it is true.
C7_ArchiveThenCleanup ==
  \A s \in Stacks :
     /\ clean[s] \in {"down", "label", "downDone", "labelDone"} => arch[s] \in {"ok", "failed"}
     /\ (arch[s] = "failed" /\ ~continueOnArchiveError) => clean[s] = "skipped"
     /\ (arch[s] = "failed" /\ continueOnArchiveError /\ Handled(s))
           => clean[s] \in {"downDone", "labelDone"}
     /\ (arch[s] = "ok" /\ Handled(s)) => clean[s] \in {"downDone", "labelDone"}

C7_Witness ==
  \E s \in Stacks :
     /\ continueOnArchiveError
     /\ arch[s] = "failed"
     /\ Handled(s)
     /\ clean[s] \in {"downDone", "labelDone"}

\* C8: while the callback's scheduler.Reload is in progress, the removal
\* check of the same callback is over: every stack it reported removed
\* has been archived and cleaned up (or skipped), none is in progress.
C8_RemovalBeforeReload ==
  sth["w"].pc # "idle" =>
     /\ wpc = "reloading"
     /\ ~CheckForRemovalsRunning
     /\ \A s \in reported :
           arch[s] \in {"ok", "failed"} /\ clean[s] \in {"skipped", "downDone", "labelDone"}

C8_Witness ==
  /\ sth["w"].pc \in {"reload", "discover", "drain", "arm"}
  /\ reported # {}
  /\ \A s \in reported : clean[s] \in {"downDone", "labelDone"}

\* C11 (as stated): a Deploy of a remote stack whose sync cloned the
\* repository and checked out the resolved ref executes the stack from the
\* working copy's definition file: its execution step is not refused for
\* want of a compose file.
C11_AsStated ==
  \A p \in Callers :
     (Returned(p) /\ dep[p].type = "remote" /\ dep[p].sync = "ok" /\ ~dep[p].hadCopy)
        => dep[p].why # "nocompose"

\* ------------------------------------------------------ Remote sync claims
Synced(p) == dep[p].sync # "none"

\* C12: a sync that found a working copy and whose pull failed does not
\* end in an error for that reason: it keeps the copy and goes on to the
\* version comparison, so it ends ok or in a checkout error.
C12_PullFailureNotFatal ==
  \A p \in Callers :
     (Synced(p) /\ dep[p].hadCopy /\ dep[p].pullFailed) =>
        /\ dep[p].sync \in {"ok", "checkoutErr"}
        /\ dep[p].steps = {"pull", "version"}
        /\ wc[dep[p].stack].cloned

C12_Witness ==
  \E p \in Callers :
     /\ dep[p].pc = "manager"
     /\ dep[p].hadCopy
     /\ dep[p].pullFailed
     /\ dep[p].sync = "ok"
     /\ dep[p].steps = {"pull", "version"}

\* C13: a sync that found no working copy and whose clone failed ends in
\* a clone error, having attempted neither pull nor checkout, and leaves
\* no working copy.
C13_CloneFailureFatal ==
  \A p \in Callers :
     (Synced(p) /\ "clone" \in dep[p].steps /\ ~wc[dep[p].stack].cloned) =>
        /\ dep[p].sync = "cloneErr"
        /\ dep[p].steps = {"clone"}
        /\ ~dep[p].hadCopy

C13_Witness ==
  \E p \in Callers :
     /\ dep[p].sync = "cloneErr"
     /\ dep[p].steps = {"clone"}
     /\ ~wc[dep[p].stack].cloned

\* ------------------------------------------------------ Retry engine claims
RECURSIVE Pow(_, _)
Pow(b, n) == IF n = 0 THEN 1 ELSE b * Pow(b, n - 1)

\* min(initialDelay * multiplier^(i-1), maxDelay), in whole time units.
StatedDelay(cfg, i) ==
  LET d == (cfg.initialDelay * Pow(cfg.backoff[1], i - 1)) \div Pow(cfg.backoff[2], i - 1)
  IN IF d > cfg.maxDelay THEN cfg.maxDelay ELSE d

\* C14 (as stated): the wait after attempt i is
\* min(initialDelay * multiplier^(i-1), maxDelay), for every configuration.
C14_AsStated ==
  \A i \in 1..Len(retry.waits) : retry.waits[i] = StatedDelay(retry.cfg, i)

\* C15: the operation is invoked at most MaxAttempts times; success is
\* returned right after the first successful invocation and the exhausted
\* error right after the MaxAttempts-th failure, with one full wait
\* between consecutive invocations and none after the last.
C15_AttemptsBounded ==
  /\ retry.calls <= retry.cfg.maxAttempts
  /\ retry.lastOk => (retry.pc = "done" /\ retry.result = "ok")
  /\ retry.result = "ok" => (retry.lastOk /\ Len(retry.waits) = retry.calls - 1)
  /\ retry.result = "exhausted" =>
       /\ retry.calls = retry.cfg.maxAttempts
       /\ ~retry.lastOk
       /\ Len(retry.waits) = IF retry.calls = 0 THEN 0 ELSE retry.calls - 1

C15_Witness ==
  /\ retry.result = "exhausted"
  /\ retry.cfg.maxAttempts = MaxAttempts
  /\ retry.calls = MaxAttempts
  /\ Len(retry.waits) = MaxAttempts - 1

\* C16: once the context is cancelled during a wait whose timer has not
\* fired, the operation is not invoked again and the call ends with the
\* cancellation error, never with the exhausted error or success.
C16_CancelDuringWait ==
  retry.cancelledAt # -1 =>
     /\ retry.calls = retry.cancelledAt
     /\ retry.pc \in {"wait", "done"}
     /\ retry.pc = "done" => retry.result = "cancelled"

C16_Witness ==
  /\ retry.cancelledAt # -1
  /\ retry.pc = "done"
  /\ retry.result = "cancelled"
  /\ retry.calls < retry.cfg.maxAttempts

\* -------------------------------------------------------- Debounce claims
Gap(i) == deb.evs[i + 1].at - deb.evs[i].at
\* The last event of every burst: a burst goes on while each event comes
\* less than the window after the one before.
BurstEnds ==
  {i \in 1..Len(deb.evs) : i = Len(deb.evs) \/ Gap(i) >= debounceWindow}
NthBurstEnd(k) ==
  CHOOSE e \in BurstEnds : Cardinality({x \in BurstEnds : x <= e}) = k
\* run has nothing left to do for the events so far, and was not cancelled.
RunQuiet ==
  /\ deb.pc = "select"
  /\ deb.read = Len(deb.evs)
  /\ ~deb.pending
  /\ deb.timerAt = -1
  /\ ~deb.timerC
  /\ ~deb.ctxDone
\* No event came exactly one window after the one before.
NoBoundaryGap == \A i \in 1..(Len(deb.evs) - 1) : Gap(i) # debounceWindow
\* The last change among the first n events, 0 if there is none.
LastChange(n) ==
  LET C == {i \in 1..n : IsChange(deb.evs[i].op)}
  IN IF C = {} THEN 0 ELSE CHOOSE i \in C : \A j \in C : j <= i

\* C17 as stated: once run is done with the events so far, the callback
\* was invoked exactly once per burst, in order, each invocation at least
\* the window after the last event of its burst and with that event's path.
C17_AsStated ==
  (RunQuiet /\ NoBoundaryGap) =>
     /\ Len(deb.cbs) = Cardinality(BurstEnds)
     /\ \A k \in 1..Len(deb.cbs) :
           /\ deb.cbs[k].path = deb.evs[NthBurstEnd(k)].path
           /\ deb.cbs[k].at >= deb.evs[NthBurstEnd(k)].at + debounceWindow

\* C17 corrected: every invocation is made at least the window after run
\* received its latest change event (create, remove, write, rename), which
\* happened no later, carries that event's path, and covers a change no
\* earlier invocation covered; while an invocation is owed the timer is
\* armed or has fired; and once run is done with the events so far,
\* uncancelled, the last invocation covers every change.
C17_DebouncedCallbacks ==
  /\ \A k \in 1..Len(deb.cbs) :
        LET c == deb.cbs[k]
            j == LastChange(c.upto)
        IN /\ j > (IF k = 1 THEN 0 ELSE deb.cbs[k - 1].upto)
           /\ c.path = deb.evs[j].path
           /\ c.at >= c.readAt + debounceWindow
           /\ c.readAt >= deb.evs[j].at
  /\ deb.pending => (deb.timerAt # -1 \/ deb.timerC)
  /\ (RunQuiet /\ LastChange(Len(deb.evs)) > 0) =>
        /\ Len(deb.cbs) > 0
        /\ deb.cbs[Len(deb.cbs)].upto >= LastChange(Len(deb.evs))

\* A burst of two changes at different times and of different paths was
\* received in one go and answered by one invocation with the later path.
C17_Witness ==
  /\ RunQuiet
  /\ Len(deb.cbs) = 1
  /\ Len(deb.evs) = 2
  /\ IsChange(deb.evs[1].op) /\ IsChange(deb.evs[2].op)
  /\ Gap(1) = 1
  /\ deb.evs[1].path # deb.evs[2].path
  /\ deb.cbs[1].path = deb.evs[2].path
  /\ deb.cbs[1].at = deb.evs[2].at + debounceWindow

\* ------------------------------------------------------ Job discovery claims
\* C18 as stated: a service whose schedule label is present and empty is
\* discovered as a job with an empty schedule, is never registered for
\* automatic triggering, and a manual run of it executes; a service
\* without the label is not a job.
C18_AsStated ==
  \A sv \in Services :
     /\ (cj.compose[sv] # "absent" /\ TrimSpace(cj.compose[sv]) = "") =>
           /\ cj.pc = "started" =>
                 /\ [service |-> sv, schedule |-> ""] \in cj.jobs
                 /\ sv \notin cj.entries
           /\ cj.manual[sv] \in {"none", "executed"}
     /\ (cj.compose[sv] = "absent" /\ cj.pc = "started") =>
           \A job \in cj.jobs : job.service # sv

\* -------------------------------------------------- Container cleanup claims
Of(job, cs) == {c \in cs : c.job = job}
\* The n most recent containers of cs by timestamp.
MostRecent(cs, n) == {c \in cs : Cardinality({d \in cs : d.ts > c.ts}) < n}

\* C19 as stated: after a cleanup with retention N that docker carried
\* out, every job is left with exactly its N most recent containers by
\* timestamp, and a job that had at most N containers has lost none.
C19_AsStated ==
  ct.cleaned = "ok" =>
     \A job \in CronJobs :
        /\ Of(job, ct.containers) = MostRecent(Of(job, ct.before), ct.retention)
        /\ Cardinality(Of(job, ct.before)) <= ct.retention =>
              Of(job, ct.containers) = Of(job, ct.before)

\* ------------------------------------------------------ Deploy result claims
\* C20 as stated: the result of a successful Deploy holds the stack name,
\* the applied tag, the previous tag (the value the tag variable held
\* before the call) and the captured output.
C20_AsStated ==
  \A p \in Callers :
     (Returned(p) /\ dep[p].result = "ok") =>
        /\ "Stack" \in DOMAIN dep[p].value /\ dep[p].value.Stack = dep[p].stack
        /\ "Tag" \in DOMAIN dep[p].value /\ dep[p].value.Tag = dep[p].tag
        /\ "Stdout" \in DOMAIN dep[p].value
        /\ "PreviousTag" \in DOMAIN dep[p].value
        /\ dep[p].value.PreviousTag = dep[p].previous

\* ------------------------------------------------- Stack discovery claims
OneMarker == {s \in Stacks : ds.layout[s] \in {"local", "remote", "remotesub", "remotebad"}}
NamePos(s) == CHOOSE i \in 1..Len(StackOrder) : StackOrder[i] = s
\* The list holds exactly the stacks of S, once each, sorted by name.
ListsExactly(S) ==
  /\ Len(ds.list.stacks) = Cardinality(S)
  /\ {ds.list.stacks[i].Name : i \in 1..Len(ds.list.stacks)} = S
  /\ \A i \in 1..(Len(ds.list.stacks) - 1) :
        NamePos(ds.list.stacks[i].Name) < NamePos(ds.list.stacks[i + 1].Name)

StatedResolve(s, k) ==
  IF k = "both" THEN [err |-> "ambiguous"]
  ELSE IF k \in {"absent", "file"} THEN [err |-> "notfound"]
  ELSE IF k = "bare" THEN [err |-> "unclassified"]
  ELSE IF k = "local"
  THEN [err |-> "", info |-> [Name |-> s, Type |-> "local",
                              ComposePath |-> <<"stacks", s, "docker-compose.yml">>]]
  ELSE [err |-> "", info |-> [Name |-> s, Type |-> "remote",
                              ComposePath |-> IF k = "remotesub"
                                              THEN <<".stackr-repos", s, "deploy", "docker-compose.yml">>
                                              ELSE <<".stackr-repos", s, "docker-compose.yml">>]]

\* C22 as stated: resolution of a name fails with ambiguity for two
\* markers, not-found for no directory, unclassified for no marker, and
\* otherwise returns Local with the direct path or Remote with the path
\* under the working-copy root, the stack and the subdirectory.
C22_AsStated ==
  \A s \in Stacks : ds.info[s].err # "none" => ds.info[s] = StatedResolve(s, ds.layout[s])

\* C22 corrected: as stated, except that a directory with only a remote
\* descriptor that cannot be loaded makes resolution fail with the load
\* error.
C22_ResolveByMarkers ==
  \A s \in Stacks :
     ds.info[s].err # "none" =>
        ds.info[s] = IF ds.layout[s] = "remotebad" THEN [err |-> "loaddef"]
                     ELSE StatedResolve(s, ds.layout[s])

\* A remote stack with a subdirectory was resolved to its path in the
\* working copy, and an ambiguous one was refused.
C22_Witness ==
  /\ ds.layout["A"] = "remotesub"
  /\ ds.info["A"].err = ""
  /\ ds.info["A"].info.ComposePath = <<".stackr-repos", "A", "deploy", "docker-compose.yml">>
  /\ ds.layout["B"] = "both"
  /\ ds.info["B"].err = "ambiguous"

\* ------------------------------------------------------ Release ref claims
\* The ref with every placeholder replaced by its value, all at once.
RECURSIVE Subst(_, _)
Subst(ref, envVars) ==
  IF ref = <<>> THEN <<>>
  ELSE (IF Head(ref).ph THEN envVars[Head(ref).text] ELSE <<Head(ref)>>)
       \o Subst(Tail(ref), envVars)
\* The variables of the ref's placeholders that have no value.
Undefined(ref, envVars) ==
  {ref[i].text : i \in {j \in 1..Len(ref) : ref[j].ph}} \ DOMAIN envVars
FirstUndefined(ref, envVars) ==
  LET U == {i \in 1..Len(ref) : ref[i].ph /\ ref[i].text \notin DOMAIN envVars}
  IN ref[CHOOSE i \in U : \A j \in U : i <= j].text
\* No value used by the ref holds placeholder text itself.
PlainValues(ref, envVars) ==
  \A i \in 1..Len(ref) :
     (ref[i].ph /\ ref[i].text \in DOMAIN envVars) => Matches(envVars[ref[i].text]) = <<>>

\* C23 as stated: a ref without placeholder is returned unchanged; if a
\* placeholder's variable is undefined the resolution fails naming it;
\* else every placeholder is replaced by its value.
C23_AsStated ==
  rv.pc = "resolved" =>
     IF Matches(rv.ref) = <<>>
     THEN rv.out.err = "" /\ rv.out.ref = rv.ref
     ELSE IF Undefined(rv.ref, rv.envVars) # {}
     THEN rv.out.err = "undefined" /\ rv.out.name \in Undefined(rv.ref, rv.envVars)
     ELSE rv.out.err = "" /\ rv.out.ref = Subst(rv.ref, rv.envVars)

\* C23 corrected: an empty ref is an error; a ref without placeholder is
\* returned unchanged; if a placeholder's variable is undefined the
\* resolution fails naming the first such variable; else, for values
\* that hold no placeholder themselves, the result is the ref with every
\* placeholder replaced by its value and white space trimmed at both ends.
C23_SubstituteAndTrim ==
  rv.pc = "resolved" =>
     IF rv.ref = <<>>
     THEN rv.out.err = "empty"
     ELSE IF Matches(rv.ref) = <<>>
     THEN rv.out.err = "" /\ rv.out.ref = rv.ref
     ELSE IF Undefined(rv.ref, rv.envVars) # {}
     THEN rv.out.err = "undefined" /\ rv.out.name = FirstUndefined(rv.ref, rv.envVars)
     ELSE /\ rv.out.err = ""
          /\ PlainValues(rv.ref, rv.envVars) =>
                rv.out.ref = TrimSpaceText(Subst(rv.ref, rv.envVars))

\* A ref with the same placeholder twice around a literal was resolved
\* to the value, the literal and the value.
C23_Witness ==
  /\ rv.pc = "resolved"
  /\ rv.ref = <<Ph("V"), Lit("v"), Ph("V")>>
  /\ "V" \in DOMAIN rv.envVars
  /\ rv.envVars["V"] = <<Lit("1")>>
  /\ rv.out.err = ""
  /\ rv.out.ref = <<Lit("1"), Lit("v"), Lit("1")>>

\* ---------------------------------------------------- Deploy context claims
\* C24 as stated: once the caller's context is cancelled or past its
\* deadline, Deploy eventually returns and has released the deploy mutex.
C24_AsStated ==
  \A p \in Callers :
     (dep[p].pc # "idle" /\ dep[p].ctxDone) ~> (dep[p].pc = "idle" /\ mu # p)

\* ------------------------------------------------ jobs and deploys claims
\* A deploy that wants r.mu while nobody holds it.
WantsLock(p) == dep[p].pc = "lock" /\ mu = "none"
\* A deploy inside its critical section, before its return.
Deploying(p) == dep[p].pc \in {"snapshot", "update", "resolve", "sync", "manager", "run"}
JobRunning == \E d \in Drivers, s \in Stacks : crun[d][s] > 0

\* C25: a job firing and a Deploy never wait on each other: whatever the
\* state of the deploy mutex, a due job starts, a spawned run-on-deploy job
\* starts and a running job finishes; whatever the state of the scheduler
\* lock and of the running jobs, a Deploy takes the free deploy mutex and
\* goes on inside it; the deploy mutex is only ever held by a Deploy caller
\* and the scheduler lock by a Start/Reload/Stop caller.
C25_JobsAndDeploysIndependent ==
  /\ mu \in Callers \cup {"none"}
  /\ smu \in SThreads \cup {"none"}
  /\ \A d \in Drivers, s \in Stacks :
       /\ (drv[d].state = "running" /\ s \in drv[d].entries) => ENABLED Fire(d, s)
       /\ crun[d][s] > 0 => ENABLED JobFinish(d, s)
  /\ \A s \in Stacks :
       /\ (rodPending[s] > 0 /\ rodRun[s] < MaxInst) => ENABLED RodStart(s)
       /\ rodRun[s] > 0 => ENABLED RodFinish(s)
  /\ \A p \in Callers :
       /\ WantsLock(p) => ENABLED DeployLock(p)
       /\ Deploying(p) => ENABLED DeployStep(p)

\* A job starts while a Deploy of another stack holds the deploy mutex,
\* and a Deploy takes the mutex while a Reload holds the scheduler lock and
\* a job runs.
C25_Witness ==
  /\ smu # "none"
  /\ JobRunning
  /\ \E p \in Callers : mu = p /\ Deploying(p) /\ crun[cron][dep[p].stack] = 0

\* C26 (as stated): under the default policy a call whose every attempt
\* fails makes 5 attempts and waits 30s, 60s, 120s, 240s and 300s.
C26_AsStated ==
  (retry.cfg = DefaultRetryConfig /\ retry.result = "exhausted") =>
     /\ retry.calls = 5
     /\ retry.waits = <<30, 60, 120, 240, 300>>

\* C27 (as stated): every step that changes the environment file is taken
\* by the Deploy that holds the deploy mutex; a job execution never
\* changes it.
C27_AsStated ==
  [][envFile' # envFile => (mu # "none" /\ mu' = mu /\ jx' = jx)]_vars

\* ------------------------------------------------- job instances claims
\* The instances of the job of stack s that are executing: those started
\* by a firing of some driver and the run-on-deploy ones.
Executing(s) ==
  rodRun[s] + Cardinality({d \in Drivers : crun[d][s] > 0})

\* C28 (as stated): at most one instance of a job executes at any time,
\* the scheduled firings and the run-on-deploy triggers of Start and of
\* every Reload counted together.
C28_AsStated ==
  \A s \in Stacks :
     /\ Executing(s) <= 1
     /\ \A d \in Drivers : crun[d][s] <= 1

\* A step with which the Reload of thread t returns an error.
ReloadFails(t) ==
  /\ sth[t].pc \in {"discover", "arm"}
  /\ sth'[t].pc = "idle"
  /\ sth'[t].err

\* C29 (as stated): when Reload returns an error, the job set and the
\* driver that were armed when it was called are still armed, unchanged.
C29_AsStated ==
  [][\A t \in SThreads :
       ReloadFails(t) =>
         /\ sjobs' = sth[t].had
         /\ cron' = sth[t].was
         /\ cron' # 0 => drv'[cron'].state = "running"]_vars

\* ------------------------------------------------ removal and jobs claims
\* C30 (as stated): while the removal handler archives or cleans up a
\* removed stack, and after it, no firing starts a job of that stack.
C30_AsStated ==
  [][\A s \in Stacks :
       (cur = s \/ clean[s] \in {"downDone", "labelDone"}) =>
          \A d \in Drivers : crun'[d][s] <= crun[d][s]]_vars

\* --------------------------------------------- failed remote deploy claims
\* The ref the descriptor of stack s resolves to under the file f, or
\* "none" when it does not resolve.
RefUnder(s, f) ==
  LET r == ReleaseRef(RemoteDef(s).refVar, readEnvFile(f))
  IN IF r.err THEN "none" ELSE r.ref

\* C31 (as stated): after a Deploy of a remote stack returned an error,
\* the environment file is as before the call and the working copy is at
\* the ref the restored file resolves to.
C31_AsStated ==
  \A p \in Callers :
     (Returned(p) /\ dep[p].type = "remote" /\ dep[p].result # "ok" /\ dep[p].sync = "ok"
        /\ ~dep[p].rfail /\ ~dep[p].ufail /\ envFile = dep[p].before)
        => wc[dep[p].stack].at = RefUnder(dep[p].stack, envFile)

\* ------------------------------------------------------- inventory claims
\* The names the resolver classifies as a stack, local or remote.
ResolvedStacks(f) == {s \in Stacks : ResolveStackPath(f[s]).err = ""}

\* C32 (as stated): the inventory handed to a removal check holds every
\* stack the resolver classifies as a stack, so the check reports a stack
\* removed only when it has stopped being one.
C32_AsStated ==
  [][(wpc = "load" /\ wpc' = "removals") =>
        /\ ResolvedStacks(fs) \subseteq lastInv'
        /\ \A s \in reported' : s \notin ResolvedStacks(fs)]_vars

\* ------------------------------------------------------- shutdown claims
\* main's scheduler.Stop() has returned and main has not exited yet.
StopReturned == mpc = "stopping" /\ sth["main"].pc = "idle"

\* C33 (as stated): after Stop has returned no cron driver is armed (main
\* never calls Start again), whatever a watcher callback that was running
\* when the shutdown began still does.
C33_AsStated ==
  StopReturned => (cron = 0 /\ \A d \in Drivers : drv[d].state # "running")

\* ------------------------------------------------- execution error claims
\* C34: whenever the execution step failed, Deploy returns a CommandError
\* with the captured standard output, the captured standard error and a
\* non-zero code, the same whether or not the restore of the snapshot
\* failed.
C34_ExecErrorStructured ==
  \A p \in Callers :
     (Returned(p) /\ dep[p].result = "err_exec") =>
        /\ dep[p].error = CommandError(dep[p].stack, dep[p].ran)
        /\ dep[p].error.Code # 0
        /\ dep[p].value = NoResult

\* The execution step ran docker compose and failed, and the restore
\* failed as well.
C34_Witness ==
  \E p \in Callers :
     /\ Returned(p)
     /\ dep[p].result = "err_exec"
     /\ dep[p].ran
     /\ dep[p].rfail
     /\ dep[p].error.kind = "CommandError"
     /\ dep[p].error.Stdout = "output"

\* ------------------------------------------------------- checkout claims
VersionChecked(p) == "version" \in dep[p].steps

RefFromTag(p) == dep[p].type = "remote" /\ RemoteDef(dep[p].stack).refVar = TagEnv

C37_AsStated ==
  cl.pc = "done" =>
    LET exists == hasLocalCompose(cl.k)
        d == cl.docker
        o == cl.out
    IN /\ exists <=> o.cmds = <<"compose down --volumes">>
       /\ ~exists =>
            /\ Len(o.cmds) >= 1 /\ o.cmds[1] = "ps"
            /\ (d.psOk /\ ~d.psAny /\ d.volLsOk /\ ~d.volAny /\ d.netLsOk /\ ~d.netAny)
                  => o.err = ""
            /\ (d.psOk /\ d.rmOk /\ d.volLsOk /\ d.volRmOk /\ d.netLsOk)
                  => o.err = ""

\* ------------------------------------------------- Update claims
Defines(l, key) == l.t = "kv" /\ l.k = key
Entries(f, key) == Cardinality({i \in 1..Len(f.lines) : Defines(f.lines[i], key)})
OneEntryPerKey(f) == \A k \in Keys(f) : Entries(f, k) <= 1
\* The value of the last line of f that defines key, "" when there is none.
ValueBefore(f, key) ==
  LET at == {i \in 1..Len(f.lines) : Defines(f.lines[i], key)}
  IN IF at = {} THEN ""
     ELSE f.lines[CHOOSE i \in at : \A j \in at : j <= i].v

C39_AsStated ==
  [][(mpc = "starting" /\ mpc' = "serving") => tracker' = ResolvedStacks(fs)]_vars

\* ------------------------------------------------- driver claims
Armed(d) == drv[d].state = "running"
\* A Reload that has discovered a job set and not yet stored it.
Reloading(t) == sth[t].pc \in {"drain", "arm"}
JobStacks(jobs) == {jobs[i].stack : i \in 1..Len(jobs)}

====
